---- MODULE Spec2Model ----
(***************************************************************************)
(* A model of janus, a typed command facade over a key-value store:        *)
(*   - the facades redis_template / valkey_template / string_valkey_template*)
(*     and the operation views they build (SpecFacade),                    *)
(*   - the stream based text serializer janus::string_serializer           *)
(*     (SpecSer),                                                          *)
(*   - the connection primitives of redis_connection, the views of         *)
(*     redis_operations.hpp on top of them, and the store they talk to     *)
(*     (Spec).                                                             *)
(***************************************************************************)
EXTENDS Integers, Sequences, FiniteSets, TLC

VARIABLES
    facade,   \* the facade object under construction / constructed
    access,   \* the result of the last ops_for_* accessor call
    ser,      \* the serializer round under way
    db,       \* the store's keyspace
    last      \* the last view / facade / connection operation and its outcome

vars == <<facade, access, ser, db, last>>

(***************************************************************************)
(* Handles: shared_ptr values.  Null is the empty shared_ptr / unique_ptr. *)
(***************************************************************************)
Null == "null"

Connections == {Null, "conn"}

Serializers == {Null, "ser1", "ser2"}

\* std::make_shared<string_serializer_adapter<std::string>>() of
\* string_valkey_template: one fresh adapter instance.
SharedAdapter == "adapter"

ViewNames == {"key_ops", "value_ops", "hash_ops", "list_ops", "set_ops", "zset_ops"}

\* A unique_ptr<view> member that was never assigned.
NullView ==
    [built |-> 0, tpl |-> Null, conn |-> Null, key_s |-> Null, value_s |-> Null,
     hash_key_s |-> Null, hash_value_s |-> Null]

\* default_*_operations(redis_template &ops) : tpl(ops): the view keeps a
\* reference to the facade and nothing else.
DefaultView(this) ==
    [built |-> 1, tpl |-> this, conn |-> Null, key_s |-> Null, value_s |-> Null,
     hash_key_s |-> Null, hash_value_s |-> Null]

\* valkey_*_operations(conn, key_s, value_s) and the four-argument hash view:
\* the view is handed a connection and serializers by value.
ValkeyView(conn, key_s, value_s, hash_key_s, hash_value_s) ==
    [built |-> 1, tpl |-> Null, conn |-> conn, key_s |-> key_s, value_s |-> value_s,
     hash_key_s |-> hash_key_s, hash_value_s |-> hash_value_s]

NoFacade ==
    [exists |-> FALSE, kind |-> "none", thrown |-> FALSE,
     arg_conn |-> Null, arg_key_s |-> Null, arg_value_s |-> Null,
     arg_hash_key_s |-> Null, arg_hash_value_s |-> Null,
     connection |-> Null, key_serializer |-> Null, value_serializer |-> Null,
     hash_key_serializer |-> Null, hash_value_serializer |-> Null,
     views |-> [v \in ViewNames |-> NullView]]

\* A shared_ptr after std::move(p) was used to construct another one: empty.
MovedFrom(p) == Null

(***************************************************************************)
(* redis_template::redis_template(conn, k_serializer, v_serializer)        *)
(***************************************************************************)
RedisTemplateThrows(conn, k_serializer, v_serializer) ==
    conn = Null \/ k_serializer = Null \/ v_serializer = Null

\* The views the constructor body assigns.  Only value_ops is built; the
\* four other make_unique lines are commented out in the source.
RedisTemplateViews(this) ==
    [v \in ViewNames |-> IF v = "value_ops" THEN DefaultView(this) ELSE NullView]

redis_template(conn, k_serializer, v_serializer) ==
    IF RedisTemplateThrows(conn, k_serializer, v_serializer)
    THEN [NoFacade EXCEPT !.kind = "redis_template", !.thrown = TRUE,
                          !.arg_conn = conn, !.arg_key_s = k_serializer,
                          !.arg_value_s = v_serializer]
    ELSE [NoFacade EXCEPT !.exists = TRUE, !.kind = "redis_template",
                          !.arg_conn = conn, !.arg_key_s = k_serializer,
                          !.arg_value_s = v_serializer,
                          !.connection = conn,
                          !.key_serializer = k_serializer,
                          !.value_serializer = v_serializer,
                          !.views = RedisTemplateViews("this")]

(***************************************************************************)
(* valkey_template::valkey_template(connection, key_serializer,            *)
(*     value_serializer, hash_key_serializer, hash_value_serializer)       *)
(* The member initialisers move every parameter into the member of the     *)
(* same name (connection into connection_).  In the body the unqualified   *)
(* names key_serializer, ... denote the PARAMETERS, which are moved-from;  *)
(* connection_ denotes the member.                                         *)
(***************************************************************************)
ValkeyViewSerializer(param) == MovedFrom(param)

ValkeyTemplateViews(connection_, key_serializer, value_serializer, hash_key_serializer, hash_value_serializer) ==
    LET ks  == ValkeyViewSerializer(key_serializer)
        vs  == ValkeyViewSerializer(value_serializer)
        hks == ValkeyViewSerializer(hash_key_serializer)
        hvs == ValkeyViewSerializer(hash_value_serializer)
    IN  [v \in ViewNames |->
            CASE v = "key_ops"  -> ValkeyView(connection_, ks, Null, Null, Null)
              [] v = "hash_ops" -> ValkeyView(connection_, ks, Null, hks, hvs)
              [] OTHER          -> ValkeyView(connection_, ks, vs, Null, Null)]

\* There is no null check in this constructor: it never throws.
ValkeyTemplateThrows(connection, key_serializer, value_serializer, hash_key_serializer, hash_value_serializer) ==
    FALSE

valkey_template(kind, connection, key_serializer, value_serializer, hash_key_serializer, hash_value_serializer) ==
    IF ValkeyTemplateThrows(connection, key_serializer, value_serializer,
                            hash_key_serializer, hash_value_serializer)
    THEN [NoFacade EXCEPT !.kind = kind, !.thrown = TRUE,
                          !.arg_conn = connection, !.arg_key_s = key_serializer,
                          !.arg_value_s = value_serializer,
                          !.arg_hash_key_s = hash_key_serializer,
                          !.arg_hash_value_s = hash_value_serializer]
    ELSE [NoFacade EXCEPT !.exists = TRUE, !.kind = kind,
                          !.arg_conn = connection, !.arg_key_s = key_serializer,
                          !.arg_value_s = value_serializer,
                          !.arg_hash_key_s = hash_key_serializer,
                          !.arg_hash_value_s = hash_value_serializer,
                          !.connection = connection,
                          !.key_serializer = key_serializer,
                          !.value_serializer = value_serializer,
                          !.hash_key_serializer = hash_key_serializer,
                          !.hash_value_serializer = hash_value_serializer,
                          !.views = ValkeyTemplateViews(connection, key_serializer,
                                        value_serializer, hash_key_serializer,
                                        hash_value_serializer)]

\* string_valkey_template(connection): delegates to the private constructor
\* with one make_shared adapter, passed for all four serializer roles.
string_valkey_template(connection) ==
    valkey_template("string_valkey_template", connection, SharedAdapter,
                    SharedAdapter, SharedAdapter, SharedAdapter)

(***************************************************************************)
(* ops_for_*(): return *member.  Dereferencing an empty unique_ptr is      *)
(* undefined: the caller gets a reference to no object, or the process     *)
(* dies.                                                                   *)
(***************************************************************************)
NoAccess == [view |-> "none", outcome |-> "none"]

OpsForOutcomes(f, v) ==
    IF f.views[v].built > 0 THEN {"view"} ELSE {"null_reference", "crash"}

\* redis_template has no ops_for_key().
Accessors(f) ==
    IF f.kind = "redis_template" THEN ViewNames \ {"key_ops"} ELSE ViewNames

(***************************************************************************)
(* The facade life cycle.                                                  *)
(***************************************************************************)
Idle == /\ ser = "idle"
        /\ db = "idle"
        /\ last = "idle"

InitFacade ==
    /\ facade = NoFacade
    /\ access = NoAccess
    /\ Idle

ConstructRedisTemplate ==
    /\ facade.kind = "none"
    /\ \E conn \in Connections, ks \in Serializers, vs \in Serializers :
          facade' = redis_template(conn, ks, vs)
    /\ UNCHANGED <<access, ser, db, last>>

ConstructValkeyTemplate ==
    /\ facade.kind = "none"
    /\ \E conn \in Connections, ks \in Serializers, vs \in Serializers,
          hks \in Serializers, hvs \in Serializers :
          facade' = valkey_template("valkey_template", conn, ks, vs, hks, hvs)
    /\ UNCHANGED <<access, ser, db, last>>

ConstructStringValkeyTemplate ==
    /\ facade.kind = "none"
    /\ \E conn \in Connections : facade' = string_valkey_template(conn)
    /\ UNCHANGED <<access, ser, db, last>>

OpsFor ==
    /\ facade.exists
    /\ access.outcome # "crash"
    /\ \E v \in Accessors(facade) :
          \E o \in OpsForOutcomes(facade, v) :
              access' = [view |-> v, outcome |-> o]
    /\ UNCHANGED <<facade, ser, db, last>>

NextFacade ==
    \/ ConstructRedisTemplate
    \/ ConstructValkeyTemplate
    \/ ConstructStringValkeyTemplate
    \/ OpsFor

SpecFacade == InitFacade /\ [][NextFacade]_vars

(***************************************************************************)
(* Two redis_template objects: construction, the implicitly defined move   *)
(* constructor, destruction, and a call through the value view.  The class *)
(* declares no copy or move operation and no destructor, so it has the     *)
(* memberwise move constructor; its unique_ptr members make it non-copyable.*)
(***************************************************************************)
Objects == {"a", "b"}

\* No object yet, a live object, one that was moved from, one that was destroyed.
Lives == {"none", "live", "moved_from", "destroyed"}

\* redis_template(redis_template &&other): each member is move-constructed from
\* other's.  The views change owner as they are; tpl inside them is a
\* reference and stays bound to other.
MoveConstructed(other) == other

\* What the move constructor leaves in other: empty shared_ptr and unique_ptr
\* members.
LeftBehind(other) ==
    [other EXCEPT !.connection = MovedFrom(@), !.key_serializer = MovedFrom(@),
                  !.value_serializer = MovedFrom(@),
                  !.views = [v \in ViewNames |-> NullView]]

\* ~redis_template(): the members are destroyed, the views with them.
Destroyed(f) == [f EXCEPT !.exists = FALSE, !.views = [v \in ViewNames |-> NullView]]

\* ops_for_value().get(key) on the facade o: the view calls
\* tpl.get_connection(), which is *connection of the facade tpl is bound to.
\* Through a destroyed facade, or through one whose connection was moved away,
\* the behaviour is undefined.
InvokeOutcomes(fs, o) ==
    LET tpl == fs.objects[o].views["value_ops"].tpl
    IN  IF fs.life[tpl] = "destroyed" THEN {"dangling_reference", "crash"}
        ELSE IF fs.objects[tpl].connection = Null THEN {"null_reference", "crash"}
        ELSE {"delegated"}

InitMove ==
    /\ facade = [objects |-> [o \in Objects |-> NoFacade], life |-> [o \in Objects |-> "none"]]
    /\ access = NoAccess
    /\ Idle

Construct ==
    /\ access.outcome # "crash"
    /\ \E o \in Objects, conn \in Connections, ks \in Serializers, vs \in Serializers :
          /\ facade.life[o] = "none"
          /\ facade.objects[o].kind = "none"
          /\ facade' = [facade EXCEPT
                !.objects[o] = [redis_template(conn, ks, vs) EXCEPT
                                    !.views = IF RedisTemplateThrows(conn, ks, vs) THEN @
                                              ELSE RedisTemplateViews(o)],
                !.life[o] = IF RedisTemplateThrows(conn, ks, vs) THEN "none" ELSE "live"]
    /\ UNCHANGED <<access, ser, db, last>>

MoveConstruct ==
    /\ access.outcome # "crash"
    /\ \E o \in Objects, other \in Objects :
          /\ o # other
          /\ facade.life[o] = "none"
          /\ facade.objects[o].kind = "none"
          /\ facade.life[other] \in {"live", "moved_from"}
          /\ facade' = [facade EXCEPT !.objects[o] = MoveConstructed(facade.objects[other]),
                                       !.objects[other] = LeftBehind(facade.objects[other]),
                                       !.life[o] = "live",
                                       !.life[other] = "moved_from"]
    /\ UNCHANGED <<access, ser, db, last>>

Destroy ==
    /\ access.outcome # "crash"
    /\ \E o \in Objects :
          /\ facade.life[o] \in {"live", "moved_from"}
          /\ facade' = [facade EXCEPT !.objects[o] = Destroyed(@), !.life[o] = "destroyed"]
    /\ UNCHANGED <<access, ser, db, last>>

Invoke ==
    /\ access.outcome # "crash"
    /\ \E o \in Objects :
          /\ facade.life[o] \in {"live", "moved_from"}
          /\ facade.objects[o].views["value_ops"].built = 1
          /\ \E outcome \in InvokeOutcomes(facade, o) :
                access' = [view |-> "value_ops", outcome |-> outcome]
    /\ UNCHANGED <<facade, ser, db, last>>

NextMove ==
    \/ Construct
    \/ MoveConstruct
    \/ Destroy
    \/ Invoke

SpecMove == InitMove /\ [][NextMove]_vars

(***************************************************************************)
(* Claims about facade construction.                                       *)
(***************************************************************************)
ValkeyKinds == {"valkey_template", "string_valkey_template"}

\* The dependencies a facade of this kind requires, as passed to its constructor.
RequiredArgs(f) ==
    IF f.kind = "redis_template"
    THEN {f.arg_conn, f.arg_key_s, f.arg_value_s}
    ELSE {f.arg_conn, f.arg_key_s, f.arg_value_s, f.arg_hash_key_s, f.arg_hash_value_s}

\* The serializers a view of a valkey facade is to share with the facade.
ViewSharesDependencies(f, v) ==
    LET w == f.views[v]
    IN  /\ w.built = 1
        /\ w.conn = f.connection /\ w.conn = f.arg_conn
        /\ w.key_s = f.key_serializer /\ w.key_s = f.arg_key_s /\ w.key_s # Null
        /\ (v \notin {"key_ops", "hash_ops"}) =>
              /\ w.value_s = f.value_serializer
              /\ w.value_s = f.arg_value_s
              /\ w.value_s # Null
        /\ (v = "hash_ops") =>
              /\ w.hash_key_s = f.hash_key_serializer
              /\ w.hash_key_s = f.arg_hash_key_s
              /\ w.hash_key_s # Null
              /\ w.hash_value_s = f.hash_value_serializer
              /\ w.hash_value_s = f.arg_hash_value_s
              /\ w.hash_value_s # Null

\* C1: a constructor call (redis_template or valkey_template) that is passed a
\* null connection or a null required serializer fails with an error, so no
\* facade exists whose connection or required serializer is missing.
C1_NullDependencyFailsConstruction ==
    (facade.kind # "none" /\ Null \in RequiredArgs(facade))
        => (facade.thrown /\ ~facade.exists)

\* C2: once a redis_template is constructed, each of ops_for_value, ops_for_hash,
\* ops_for_list, ops_for_set and ops_for_zset yields a view the constructor built
\* exactly once; no accessor yields an unconstructed (null) view.
C2_AccessorsYieldConstructedViews ==
    (facade.exists /\ facade.kind = "redis_template")
        => /\ \A v \in Accessors(facade) : facade.views[v].built = 1
           /\ access.outcome \in {"none", "view"}

\* C3: after valkey_template / string_valkey_template construction with non-null
\* dependencies, every view was given the connection and the non-null serializers
\* passed to the constructor and stored in the facade; for string_valkey_template
\* the one shared adapter serves the key, value, hash-field and hash-value roles.
C3_ViewsShareFacadeDependencies ==
    (facade.exists /\ facade.kind \in ValkeyKinds /\ Null \notin RequiredArgs(facade))
        => /\ \A v \in ViewNames : ViewSharesDependencies(facade, v)
           /\ (facade.kind = "string_valkey_template") =>
                 \A v \in ViewNames :
                    {facade.views[v].key_s} \cup
                    (IF v = "hash_ops"
                     THEN {facade.views[v].hash_key_s, facade.views[v].hash_value_s}
                     ELSE IF v = "key_ops" THEN {} ELSE {facade.views[v].value_s})
                        = {SharedAdapter}

(***************************************************************************)
(* janus::string_serializer<T> and string_serializer_adapter<T>            *)
(* (serialization.hpp).  Text is a sequence of one-character strings.      *)
(***************************************************************************)
MaxStrLen == 3

MaxInt == 12

\* The characters buffers and strings are drawn from: a letter, a blank,
\* a digit and the minus sign.
BufChars == {"a", " ", "1", "-"}

\* What std::isspace accepts, as far as BufChars goes: operator>> skips these
\* before a token and stops a string token at them.
IsSpace(c) == c \in {" ", "\t", "\n"}

DigitChars == <<"0", "1", "2", "3", "4", "5", "6", "7", "8", "9">>

IsDigit(c) == \E i \in 1..10 : DigitChars[i] = c

DigitVal(c) == (CHOOSE i \in 1..10 : DigitChars[i] = c) - 1

SeqsUpTo(S, n) == UNION {[1..k -> S] : k \in 0..n}

Texts == SeqsUpTo(BufChars, MaxStrLen)

IntValues == (0 - MaxInt)..MaxInt

RECURSIVE NatToText(_)
\* operator<<(ostream&, int) for n >= 0: the decimal digits of n.
NatToText(n) ==
    IF n < 10 THEN <<DigitChars[n + 1]>>
    ELSE NatToText(n \div 10) \o <<DigitChars[(n % 10) + 1]>>

\* ss << obj for an integer: an optional minus sign and the decimal digits.
IntToText(n) == IF n < 0 THEN <<"-">> \o NatToText(0 - n) ELSE NatToText(n)

\* The position of the first character of text at or after i that is not white
\* space, Len(text) + 1 if there is none (the stream hit end of file).
RECURSIVE SkipWs(_, _)
SkipWs(text, i) ==
    IF i > Len(text) THEN i
    ELSE IF IsSpace(text[i]) THEN SkipWs(text, i + 1) ELSE i

\* The position after the run of non-space characters starting at i.
RECURSIVE TokenEnd(_, _)
TokenEnd(text, i) ==
    IF i > Len(text) THEN i
    ELSE IF IsSpace(text[i]) THEN i ELSE TokenEnd(text, i + 1)

\* The position after the run of digits starting at i.
RECURSIVE DigitsEnd(_, _)
DigitsEnd(text, i) ==
    IF i > Len(text) THEN i
    ELSE IF IsDigit(text[i]) THEN DigitsEnd(text, i + 1) ELSE i

RECURSIVE DigitsValue(_, _, _)
DigitsValue(text, i, j) ==
    IF j <= i THEN 0
    ELSE DigitsValue(text, i, j - 1) * 10 + DigitVal(text[j - 1])

\* ss >> obj for std::string: skip white space, then read up to the next white
\* space.  Nothing read (end of file while skipping) sets failbit and eofbit and
\* leaves the string empty; reading up to the end of the text sets eofbit.
ExtractString(text) ==
    LET b == SkipWs(text, 1)
        e == TokenEnd(text, b)
    IN  IF b > Len(text)
        THEN [str |-> <<>>, int |-> 0, fail |-> TRUE, eof |-> TRUE]
        ELSE [str |-> SubSeq(text, b, e - 1), int |-> 0, fail |-> FALSE,
              eof |-> e > Len(text)]

\* ss >> obj for int: skip white space, read an optional sign and the digits that
\* follow.  No digit sets failbit and stores 0; eofbit is set when the scan ran
\* into the end of the text.
ExtractInt(text) ==
    LET b == SkipWs(text, 1)
        signed == b <= Len(text) /\ text[b] \in {"-", "+"}
        d == IF signed THEN b + 1 ELSE b
        e == DigitsEnd(text, d)
        n == DigitsValue(text, d, e)
    IN  IF e = d
        THEN [str |-> <<>>, int |-> 0, fail |-> TRUE, eof |-> d > Len(text)]
        ELSE [str |-> <<>>, int |-> IF signed /\ text[b] = "-" THEN 0 - n ELSE n,
              fail |-> FALSE, eof |-> e > Len(text)]

Extract(T, text) == IF T = "int" THEN ExtractInt(text) ELSE ExtractString(text)

\* The condition under which deserialize throws: if (ss.fail() && !ss.eof()).
DeserializeThrows(r) == r.fail /\ ~r.eof

\* string_serializer<T>::serialize: std::stringstream ss; ss << obj; ss.str().
string_serializer_serialize(T, str, int) == IF T = "int" THEN IntToText(int) ELSE str

\* string_serializer<T>::deserialize: T obj{}; ss >> obj; throw on fail without
\* eof; otherwise return obj.
string_serializer_deserialize(T, text) ==
    LET r == Extract(T, text)
    IN  IF DeserializeThrows(r)
        THEN [thrown |-> TRUE, str |-> <<>>, int |-> 0]
        ELSE [thrown |-> FALSE, str |-> r.str, int |-> r.int]

\* byte_array(byte_ptr, text.size()): the text's characters as bytes, and back.
ToBytes(text) == [i \in 1..Len(text) |-> text[i]]

FromBytes(bytes) == [i \in 1..Len(bytes) |-> bytes[i]]

adapter_serialize(T, str, int) == ToBytes(string_serializer_serialize(T, str, int))

adapter_deserialize(T, bytes) == string_serializer_deserialize(T, FromBytes(bytes))

SerKinds == {"string_serializer", "string_serializer_adapter"}

SerTypes == {"string", "int"}

SerValue(via, T, str, int) ==
    [via |-> via, T |-> T, origin |-> "value", phase |-> "value", str |-> str, int |-> int,
     buf |-> <<>>, thrown |-> FALSE, ostr |-> <<>>, oint |-> 0]

SerBuffer(via, T, buf) ==
    [via |-> via, T |-> T, origin |-> "buffer", phase |-> "serialized", str |-> <<>>,
     int |-> 0, buf |-> buf, thrown |-> FALSE, ostr |-> <<>>, oint |-> 0]

\* A round starts from a value of the bound type, or from a buffer read from the
\* store that is to be decoded.
InitSer ==
    /\ facade = NoFacade
    /\ access = NoAccess
    /\ db = "idle"
    /\ last = "idle"
    /\ ser \in {SerValue(via, "string", s, 0) : via \in SerKinds, s \in Texts}
          \cup {SerValue(via, "int", <<>>, n) : via \in SerKinds, n \in IntValues}
          \cup {SerBuffer(via, T, b) : via \in SerKinds, T \in SerTypes, b \in Texts}

Serialize ==
    /\ ser.phase = "value"
    /\ ser' = [ser EXCEPT !.phase = "serialized",
                          !.buf = IF ser.via = "string_serializer"
                                  THEN string_serializer_serialize(ser.T, ser.str, ser.int)
                                  ELSE adapter_serialize(ser.T, ser.str, ser.int)]
    /\ UNCHANGED <<facade, access, db, last>>

Deserialize ==
    /\ ser.phase = "serialized"
    /\ LET r == IF ser.via = "string_serializer"
                THEN string_serializer_deserialize(ser.T, ser.buf)
                ELSE adapter_deserialize(ser.T, ser.buf)
       IN  ser' = [ser EXCEPT !.phase = "deserialized", !.thrown = r.thrown,
                              !.ostr = r.str, !.oint = r.int]
    /\ UNCHANGED <<facade, access, db, last>>

NextSer == Serialize \/ Deserialize

SpecSer == InitSer /\ [][NextSer]_vars

(***************************************************************************)
(* Claims about the serializer.                                            *)
(***************************************************************************)
AllSpace(text) == \A i \in 1..Len(text) : IsSpace(text[i])

NoDigit(text) == \A i \in 1..Len(text) : ~IsDigit(text[i])

\* One or more digits, then a character that is neither a digit nor white space.
NumericPrefixThenGarbage(text) ==
    LET e == DigitsEnd(text, 1)
    IN  e > 1 /\ e <= Len(text) /\ ~IsSpace(text[e])

\* The buffers the claim lists as not parsable into an integer.
UnparsableInt(text) ==
    AllSpace(text) \/ NoDigit(text) \/ NumericPrefixThenGarbage(text)

\* C4: for the stream based text serializer (and its adapter) and every value t of
\* the bound type, strings that are empty or hold white space included,
\* deserialize(serialize(t)) returns t.
C4_RoundTrip ==
    (ser.origin = "value" /\ ser.phase = "deserialized")
        => /\ ~ser.thrown
           /\ ser.T = "string" => ser.ostr = ser.str
           /\ ser.T = "int" => ser.oint = ser.int

\* C5: deserialize into an integer raises a decode error for every buffer that is
\* not an integer: no digits, empty or blank, or digits followed by other
\* characters; it never returns a default or partially parsed value for it.
C5_UnparsableBufferThrows ==
    (ser.origin = "buffer" /\ ser.phase = "deserialized" /\ ser.T = "int"
        /\ UnparsableInt(ser.buf))
        => ser.thrown

(***************************************************************************)
(* The store.  redis_connection talks to it through hiredis; what a        *)
(* command does to the keyspace and what it replies is the store's         *)
(* documented behaviour.  A key holds nothing, a string, a hash, a list, a *)
(* set or a sorted set; a collection that becomes empty is removed.        *)
(***************************************************************************)
MaxListLen == 2

MaxBatch == 2

\* The keys that are written to, and the keys that calls name: "j" is read and
\* deleted but never written, so it never holds anything.
Keys == {<<"k">>}

KeyNames == Keys \cup {<<"j">>}

HFields == {<<"f">>, <<"f", " ", "g">>}

Vals == {<<"v">>, <<"v", " ", "w">>}

\* std::to_string(double) prints six decimals ("%f").
Decimals == 6

\* A double is a whole number of units of a tenth of the last printed decimal:
\* 1.0 is ScoreUnit.
ScoreUnit == 10 ^ (Decimals + 1)

\* The scores members are added with: 1.0 and 1.0000001.
Scores == {ScoreUnit, ScoreUnit + 1}

\* The greatest score a member is taken to, in units of 1.0.
MaxScore == 2

\* The width of long long and of int, scaled down.
LLongBits == 4

IntBits == 3

LLONG_MIN == 0 - 2 ^ (LLongBits - 1)

LLONG_MAX == 2 ^ (LLongBits - 1) - 1

\* A key without expiry; otherwise ttl is the number of seconds left.
NoExpiry == 0 - 1

NoEntry ==
    [type |-> "none", str |-> <<>>, hash |-> {}, list |-> <<>>, set |-> {}, zset |-> {},
     ttl |-> NoExpiry]

\* A key outside the keyspace of the model holds nothing.
EntryOf(d, key) == IF key \in DOMAIN d THEN d[key] ELSE NoEntry

\* Maps (hashes, sorted sets, std::unordered_map arguments) are sets of pairs
\* <<name, value>> with one pair per name.
MapNames(h) == {p[1] : p \in h}

MapHas(h, f) == \E p \in h : p[1] = f

MapGet(h, f) == (CHOOSE p \in h : p[1] = f)[2]

MapPut(h, f, v) == {p \in h : p[1] # f} \cup {<<f, v>>}

Range(q) == {q[i] : i \in 1..Len(q)}

Reverse(q) == [i \in 1..Len(q) |-> q[Len(q) + 1 - i]]

RECURSIVE SetToSeq(_)
\* The members of a finite set in some order (the order a reply lists them in).
SetToSeq(S) ==
    IF S = {} THEN <<>>
    ELSE LET x == CHOOSE y \in S : TRUE IN <<x>> \o SetToSeq(S \ {x})

Abs(n) == IF n < 0 THEN 0 - n ELSE n

\* The w decimal digits of n, zeros in front.
PadDigits(n, w) == [i \in 1..w |-> DigitChars[((n \div (10 ^ (w - i))) % 10) + 1]]

\* std::to_string(double): "%f", the value rounded to six decimals.
ScoreToText(score) ==
    LET r == (Abs(score) + 5) \div 10
    IN  (IF score < 0 THEN <<"-">> ELSE <<>>)
            \o NatToText(r \div (10 ^ Decimals)) \o <<".">> \o PadDigits(r % (10 ^ Decimals), Decimals)

\* std::stod / the store's reading of a score: a sign, digits, and the decimals
\* after a point.
TextToScore(text) ==
    LET neg == text # <<>> /\ text[1] = "-"
        b == IF neg THEN 2 ELSE 1
        e == DigitsEnd(text, b)
        point == e <= Len(text) /\ text[e] = "."
        fe == IF point THEN DigitsEnd(text, e + 1) ELSE e
        nf == IF point THEN fe - (e + 1) ELSE 0
        frac == IF nf = 0 THEN 0
                ELSE IF nf <= Decimals + 1
                     THEN DigitsValue(text, e + 1, fe) * (10 ^ (Decimals + 1 - nf))
                ELSE DigitsValue(text, e + 1, e + 2 + Decimals)
        units == DigitsValue(text, b, e) * ScoreUnit + frac
    IN  IF neg THEN 0 - units ELSE units

\* The store's text of a score: as many decimals as the value has (none for a
\* whole number).
ScoreReplyText(score) ==
    IF score % ScoreUnit = 0 THEN IntToText(score \div ScoreUnit)
    ELSE (IF score < 0 THEN <<"-">> ELSE <<>>)
            \o NatToText(Abs(score) \div ScoreUnit) \o <<".">>
            \o PadDigits(Abs(score) % ScoreUnit, Decimals + 1)

\* The order of the characters in use, as bytes.
CharOrder == <<" ", "-", ".", "0", "1", "a", "f", "g", "v", "w">>

CharRank(c) == CHOOSE i \in 1..Len(CharOrder) : CharOrder[i] = c

\* a < b as byte strings.
RECURSIVE LexLess(_, _)
LexLess(a, b) ==
    IF b = <<>> THEN FALSE
    ELSE IF a = <<>> THEN TRUE
    ELSE IF Head(a) # Head(b) THEN CharRank(Head(a)) < CharRank(Head(b))
    ELSE LexLess(Tail(a), Tail(b))

\* The members of a sorted set in the store's order: by score, members of the
\* same score by their bytes.
RECURSIVE ZOrder(_)
ZOrder(zset) ==
    IF zset = {} THEN <<>>
    ELSE LET least == CHOOSE p \in zset :
                        \A q \in zset \ {p} : p[2] < q[2] \/ (p[2] = q[2] /\ LexLess(p[1], q[1]))
         IN  <<least[1]>> \o ZOrder(zset \ {least})

\* The elements of q at the inclusive indexes start..stop, counted from 0, a
\* negative index counted from the end.
Slice(q, start, stop) ==
    LET from == IF start < 0 THEN (IF Len(q) + start < 0 THEN 0 ELSE Len(q) + start) ELSE start
        to == IF stop < 0 THEN Len(q) + stop ELSE (IF stop >= Len(q) THEN Len(q) - 1 ELSE stop)
    IN  IF from > to \/ from >= Len(q) THEN <<>> ELSE SubSeq(q, from + 1, to + 1)

\* A redisReply: type, integer, str, and the elements of an array.
Reply(type, int, str, elems) == [type |-> type, int |-> int, str |-> str, elems |-> elems]

OK == <<"O", "K">>

Answer(reply, d) == [reply |-> reply, db |-> d]

\* The commands of the store, by name: the reply and the keyspace afterwards.
\* A command on a key that holds another type is answered with an error.
Store(d, cmd, pick) ==
    LET args == cmd.args
        key == args[1]
        e == EntryOf(d, key)
        Integer(n) == Reply("integer", n, <<>>, <<>>)
        String(v) == Reply("string", 0, v, <<>>)
        Nil == Reply("nil", 0, <<>>, <<>>)
        Array(elems) == Reply("array", 0, <<>>, elems)
        WrongType == Reply("error", 0, <<"W", "R", "O", "N", "G", "T", "Y", "P", "E">>, <<>>)
        Err == Reply("error", 0, <<"E", "R", "R">>, <<>>)
        Holding(type, v) ==
            IF type = "string" THEN [NoEntry EXCEPT !.type = type, !.str = v]
            ELSE IF type = "list"
                 THEN IF v = <<>> THEN NoEntry ELSE [NoEntry EXCEPT !.type = type, !.list = v]
            ELSE IF v = {} THEN NoEntry
            ELSE [NoEntry EXCEPT !.type = type, ![type] = v]
        \* A write other than SET leaves the key's expiry as it is.
        Keep(entry) == IF entry.type = "none" THEN entry ELSE [entry EXCEPT !.ttl = e.ttl]
        Put(entry) ==
            IF key \in DOMAIN d
            THEN [d EXCEPT ![key] = IF cmd.name \in {"SET", "GETSET"} THEN entry ELSE Keep(entry)]
            ELSE d
        \* A string the store reads as a long long: its decimal digits and nothing else.
        IsLLong(text) ==
            LET r == ExtractInt(text)
            IN  ~r.fail /\ IntToText(r.int) = text /\ r.int >= LLONG_MIN /\ r.int <= LLONG_MAX
        \* INCRBY: the value (0 for a missing key) plus by; an error if the value is
        \* no integer or the sum overflows.
        IncrBy(by) ==
            IF e.type = "string" /\ ~IsLLong(e.str) THEN Answer(Err, d)
            ELSE LET n == IF e.type = "string" THEN ExtractInt(e.str).int ELSE 0
                 IN  IF n + by < LLONG_MIN \/ n + by > LLONG_MAX THEN Answer(Err, d)
                     ELSE Answer(Integer(n + by), Put(Holding("string", IntToText(n + by))))
        type == CASE cmd.name \in {"GET", "INCRBY", "DECRBY", "GETSET", "APPEND"} -> "string"
                  [] cmd.name \in {"HSET", "HGET", "HMGET", "HGETALL", "HDEL", "HKEYS", "HVALS"} -> "hash"
                  [] cmd.name \in {"LPUSH", "RPUSH", "LPOP", "RPOP", "LLEN", "LRANGE"} -> "list"
                  [] cmd.name \in {"SADD", "SREM", "SPOP", "SINTER", "SCARD", "SISMEMBER", "SMEMBERS"} -> "set"
                  [] cmd.name \in {"ZADD", "ZREM", "ZSCORE", "ZINCRBY", "ZRANGE", "ZREVRANGE"} -> "zset"
                  [] OTHER -> "any"
        named == IF cmd.name \in {"DEL", "SINTER"} THEN Range(args) ELSE {key}
        \* The positions of the <<first, second>> pairs that follow the key, the
        \* first elements, and the last pair with a given first (second) element.
        pairs == 1..((Len(args) - 1) \div 2)
        LastWith(x, off) ==
            CHOOSE i \in pairs : /\ args[2 * i + off] = x
                                 /\ \A j \in pairs : args[2 * j + off] = x => j <= i
        fields == {args[2 * i] : i \in pairs}
        members == {args[2 * i + 1] : i \in pairs}
        listed == Range(Tail(args))
    IN  IF type # "any" /\ \E k \in named : EntryOf(d, k).type \notin {"none", type}
        THEN Answer(WrongType, d)
        ELSE
        CASE cmd.name = "EXISTS" -> Answer(Integer(IF e.type # "none" THEN 1 ELSE 0), d)
          \* DEL key [key ...]: the number of keys that were removed.
          [] cmd.name = "DEL" ->
                Answer(Integer(Cardinality({k \in named : EntryOf(d, k).type # "none"})),
                       [k \in DOMAIN d |-> IF k \in named THEN NoEntry ELSE d[k]])
          [] cmd.name = "SET" -> Answer(Reply("status", 0, OK, <<>>), Put(Holding("string", args[2])))
          [] cmd.name = "GET" -> Answer(IF e.type = "none" THEN Nil ELSE String(e.str), d)
          \* GETSET key value: SET, answered with the string held before.
          [] cmd.name = "GETSET" ->
                Answer(IF e.type = "none" THEN Nil ELSE String(e.str), Put(Holding("string", args[2])))
          \* APPEND key value: the value goes behind the string held (none: the empty
          \* string); the new length.
          [] cmd.name = "APPEND" ->
                Answer(Integer(Len(e.str \o args[2])), Put(Holding("string", e.str \o args[2])))
          [] cmd.name = "INCRBY" ->
                IF ~IsLLong(args[2]) THEN Answer(Err, d) ELSE IncrBy(ExtractInt(args[2]).int)
          \* DECRBY key by: INCRBY with -by; -LLONG_MIN is refused as an overflow.
          [] cmd.name = "DECRBY" ->
                IF ~IsLLong(args[2]) \/ ExtractInt(args[2]).int = LLONG_MIN THEN Answer(Err, d)
                ELSE IncrBy(0 - ExtractInt(args[2]).int)
          \* EXPIRE key seconds: 0 for a missing key; seconds <= 0 deletes the key.
          [] cmd.name = "EXPIRE" ->
                LET r == ExtractInt(args[2])
                IN  IF r.fail \/ IntToText(r.int) # args[2] THEN Answer(Err, d)
                    ELSE IF e.type = "none" THEN Answer(Integer(0), d)
                    ELSE IF r.int <= 0
                         THEN Answer(Integer(1), [k \in DOMAIN d |-> IF k = key THEN NoEntry ELSE d[k]])
                    ELSE Answer(Integer(1), [k \in DOMAIN d |->
                                                IF k = key THEN [d[k] EXCEPT !.ttl = r.int] ELSE d[k]])
          \* TTL key: -2 for a missing key, -1 for a key without expiry, else the
          \* seconds left.
          [] cmd.name = "TTL" -> Answer(Integer(IF e.type = "none" THEN 0 - 2 ELSE e.ttl), d)
          \* HSET key field value [field value ...]: the number of fields that were new.
          [] cmd.name = "HSET" ->
                Answer(Integer(Cardinality(fields \ MapNames(e.hash))),
                       Put(Holding("hash", {p \in e.hash : p[1] \notin fields}
                                \cup {<<f, args[2 * LastWith(f, 0) + 1]>> : f \in fields})))
          [] cmd.name = "HGET" ->
                Answer(IF MapHas(e.hash, args[2]) THEN String(MapGet(e.hash, args[2])) ELSE Nil, d)
          \* HMGET key field [field ...]: one element per field, in request order.
          [] cmd.name = "HMGET" ->
                Answer(Array([i \in 1..(Len(args) - 1) |->
                                IF MapHas(e.hash, args[i + 1])
                                THEN String(MapGet(e.hash, args[i + 1])) ELSE Nil]), d)
          \* HGETALL key: field, value, field, value, ...
          [] cmd.name = "HGETALL" ->
                Answer(Array(LET all == SetToSeq(e.hash)
                             IN  [i \in 1..(2 * Len(all)) |->
                                    String(all[(i + 1) \div 2][IF i % 2 = 1 THEN 1 ELSE 2])]), d)
          \* HKEYS / HVALS key: the fields / the values of the hash.
          [] cmd.name = "HKEYS" ->
                Answer(Array(LET all == SetToSeq(e.hash) IN [i \in 1..Len(all) |-> String(all[i][1])]), d)
          [] cmd.name = "HVALS" ->
                Answer(Array(LET all == SetToSeq(e.hash) IN [i \in 1..Len(all) |-> String(all[i][2])]), d)
          [] cmd.name = "SMEMBERS" ->
                Answer(Array(LET all == SetToSeq(e.set) IN [i \in 1..Len(all) |-> String(all[i])]), d)
          \* HDEL / ZREM key name [name ...]: the number of names that were removed.
          [] cmd.name = "HDEL" ->
                Answer(Integer(Cardinality(listed \cap MapNames(e.hash))),
                       Put(Holding("hash", {p \in e.hash : p[1] \notin listed})))
          \* LPUSH key value [value ...]: each value in turn becomes the head.
          [] cmd.name = "LPUSH" ->
                Answer(Integer(Len(e.list) + Len(args) - 1),
                       Put(Holding("list", Reverse(Tail(args)) \o e.list)))
          [] cmd.name = "RPUSH" ->
                Answer(Integer(Len(e.list) + Len(args) - 1),
                       Put(Holding("list", e.list \o Tail(args))))
          [] cmd.name = "LPOP" ->
                IF e.list = <<>> THEN Answer(Nil, d)
                ELSE Answer(String(Head(e.list)), Put(Holding("list", Tail(e.list))))
          [] cmd.name = "RPOP" ->
                IF e.list = <<>> THEN Answer(Nil, d)
                ELSE Answer(String(e.list[Len(e.list)]),
                            Put(Holding("list", SubSeq(e.list, 1, Len(e.list) - 1))))
          [] cmd.name = "LLEN" -> Answer(Integer(Len(e.list)), d)
          \* LRANGE key start stop: the elements at the indexes start..stop, head first.
          [] cmd.name = "LRANGE" ->
                Answer(Array(LET q == Slice(e.list, ExtractInt(args[2]).int, ExtractInt(args[3]).int)
                             IN  [i \in 1..Len(q) |-> String(q[i])]), d)
          \* SADD / SREM key member [member ...]: the number of members added / removed.
          [] cmd.name = "SADD" ->
                Answer(Integer(Cardinality(listed \ e.set)), Put(Holding("set", e.set \cup listed)))
          [] cmd.name = "SCARD" -> Answer(Integer(Cardinality(e.set)), d)
          [] cmd.name = "SISMEMBER" -> Answer(Integer(IF args[2] \in e.set THEN 1 ELSE 0), d)
          [] cmd.name = "SREM" ->
                Answer(Integer(Cardinality(listed \cap e.set)), Put(Holding("set", e.set \ listed)))
          \* SPOP key: removes and returns a member of the store's choosing.
          [] cmd.name = "SPOP" ->
                IF e.set = {} THEN Answer(Nil, d)
                ELSE LET x == IF pick \in e.set THEN pick ELSE CHOOSE y \in e.set : TRUE
                     IN  Answer(String(x), Put(Holding("set", e.set \ {x})))
          [] cmd.name = "SINTER" ->
                Answer(Array(LET common == SetToSeq({x \in e.set : \A k \in named : x \in EntryOf(d, k).set})
                             IN  [i \in 1..Len(common) |-> String(common[i])]), d)
          \* ZADD key score member [score member ...]: the number of members that were new.
          [] cmd.name = "ZADD" ->
                Answer(Integer(Cardinality(members \ MapNames(e.zset))),
                       Put(Holding("zset", {p \in e.zset : p[1] \notin members}
                                \cup {<<m, TextToScore(args[2 * LastWith(m, 1)])>> : m \in members})))
          [] cmd.name = "ZREM" ->
                Answer(Integer(Cardinality(listed \cap MapNames(e.zset))),
                       Put(Holding("zset", {p \in e.zset : p[1] \notin listed})))
          [] cmd.name = "ZSCORE" ->
                Answer(IF MapHas(e.zset, args[2]) THEN String(ScoreReplyText(MapGet(e.zset, args[2])))
                       ELSE Nil, d)
          \* ZINCRBY key increment member: the new score; a missing member starts at 0.
          [] cmd.name = "ZINCRBY" ->
                LET score == (IF MapHas(e.zset, args[3]) THEN MapGet(e.zset, args[3]) ELSE 0)
                                + TextToScore(args[2])
                IN  Answer(String(ScoreReplyText(score)),
                           Put(Holding("zset", MapPut(e.zset, args[3], score))))
          \* ZRANGE / ZREVRANGE key start stop: the members at the indexes start..stop
          \* of the ascending / descending order.
          [] cmd.name = "ZRANGE" ->
                Answer(Array(LET q == Slice(ZOrder(e.zset), ExtractInt(args[2]).int, ExtractInt(args[3]).int)
                             IN  [i \in 1..Len(q) |-> String(q[i])]), d)
          [] cmd.name = "ZREVRANGE" ->
                Answer(Array(LET q == Slice(Reverse(ZOrder(e.zset)), ExtractInt(args[2]).int,
                                            ExtractInt(args[3]).int)
                             IN  [i \in 1..Len(q) |-> String(q[i])]), d)

(***************************************************************************)
(* redis_connection (redis_connection.hpp): the round trip and the         *)
(* primitives.  A primitive yields its result (or that it threw), the      *)
(* commands it sent, the type of the reply and the keyspace afterwards.    *)
(***************************************************************************)
\* What the store answers with: its own reply ("none"), or a reply of another
\* type than the command's (a status reply, an integer reply), the keyspace
\* left alone.
Faults == {"none", "status", "integer"}

FaultReply(fault) ==
    IF fault = "status" THEN Reply("status", 0, <<"Q">>, <<>>) ELSE Reply("integer", 0, <<>>, <<>>)

NoPick == <<>>

Cmd(name, args) == [name |-> name, args |-> args]

Nul == "NUL"

\* s.c_str() read as a C string by the %s of a format: the bytes before the
\* first zero byte.
RECURSIVE CStrLen(_, _)
CStrLen(text, i) ==
    IF i > Len(text) THEN Len(text)
    ELSE IF text[i] = Nul THEN i - 1 ELSE CStrLen(text, i + 1)

CStr(text) == SubSeq(text, 1, CStrLen(text, 1))

\* A command built by redisvCommand from a format whose arguments are all %s.
Fmt(name, args) == Cmd(name, [i \in 1..Len(args) |-> CStr(args[i])])

\* auto x = ...; F(x): x is evaluated once and F works on its value.
With(x, F(_)) == CHOOSE o \in {F(y) : y \in {x}} : TRUE

\* redisCommandArgv / redisvCommand: one command to the store, one reply back.
RoundTrip(d, cmd, fault, pick) ==
    With(IF fault = "none" THEN Store(d, cmd, pick) ELSE Answer(FaultReply(fault), d),
         LAMBDA a : [reply |-> a.reply, db |-> a.db, sent |-> <<cmd>>, thrown |-> FALSE])

\* exec / execv: the round trip, and a throw on an error reply.
ThrowOnErrorReply(x) == [x EXCEPT !.thrown = (x.reply.type = "error")]

exec(d, cmd, fault, pick) == With(RoundTrip(d, cmd, fault, pick), ThrowOnErrorReply)

execv(d, cmd, fault, pick) == With(RoundTrip(d, cmd, fault, pick), ThrowOnErrorReply)

\* Results: a thrown exception, or a value in the field its type uses
\* (long long / double: int, bool: bool, std::optional: has and str or int,
\* maps: map, vectors: list).
Res ==
    [thrown |-> FALSE, what |-> "none", int |-> 0, bool |-> FALSE, has |-> FALSE, str |-> <<>>,
     map |-> {}, list |-> <<>>]

\* throw std::runtime_error(...): what names the thrower, the connection's
\* primitives or string_serializer::deserialize.
Raised(what) == [Res EXCEPT !.thrown = TRUE, !.what = what]

RThrow == Raised("connection")

RInt(n) == [Res EXCEPT !.int = n]

RBool(b) == [Res EXCEPT !.bool = b]

RSome(v) == [Res EXCEPT !.has = TRUE, !.str = v]

RSomeInt(n) == [Res EXCEPT !.has = TRUE, !.int = n]

RNone == Res

RMap(h) == [Res EXCEPT !.map = h]

RList(l) == [Res EXCEPT !.list = l]

\* A primitive after the round trip x: what exec threw goes on to the caller,
\* otherwise the primitive's own result res.
Out(res, x) ==
    [res |-> IF x.thrown THEN RThrow ELSE res, sent |-> x.sent, reply |-> x.reply.type, db |-> x.db]

\* A primitive that returned without a round trip.
NoTrip(res, d) == [res |-> res, sent |-> <<>>, reply |-> "none", db |-> d]

\* if (r->type != REDIS_REPLY_INTEGER) throw ...; return r->integer;
IntegerOrThrow(x) == Out(IF x.reply.type # "integer" THEN RThrow ELSE RInt(x.reply.int), x)

\* A variant that answers NIL with a default-constructed string instead of
\* nullopt; C10 must tell it from OptionalOrThrow.
OptionalOrDefault(x) ==
    Out(IF x.reply.type = "nil" THEN RSome(<<>>)
        ELSE IF x.reply.type = "string" THEN RSome(x.reply.str)
        ELSE RThrow, x)

\* NIL: nullopt; STRING: the string; otherwise throw.
OptionalOrThrow(x) ==
    Out(IF x.reply.type = "nil" THEN RNone
        ELSE IF x.reply.type = "string" THEN RSome(x.reply.str)
        ELSE RThrow, x)

\* NIL: nullopt; STRING: the string; otherwise nullopt.
OptionalOrNone(x) == Out(IF x.reply.type = "string" THEN RSome(x.reply.str) ELSE RNone, x)

\* The string elements of an array reply, other elements skipped.
RECURSIVE StringElems(_)
StringElems(elems) ==
    IF elems = <<>> THEN <<>>
    ELSE IF Head(elems).type = "string" THEN <<Head(elems).str>> \o StringElems(Tail(elems))
    ELSE StringElems(Tail(elems))

\* ARRAY: its string elements; NIL: nothing; otherwise throw.
ListOrThrow(x) ==
    Out(IF x.reply.type = "array" THEN RList(StringElems(x.reply.elems))
        ELSE IF x.reply.type = "nil" THEN RList(<<>>)
        ELSE RThrow, x)

\* ARRAY: its elements; otherwise nothing.
ListOrEmpty(x) ==
    Out(IF x.reply.type = "array" THEN RList(StringElems(x.reply.elems)) ELSE RList(<<>>), x)

\* return r->type == REDIS_REPLY_INTEGER && r->integer == 1;
redis_exists(d, key, fault) ==
    With(exec(d, Fmt("EXISTS", <<key>>), fault, NoPick),
         LAMBDA x : Out(RBool(x.reply.type = "integer" /\ x.reply.int = 1), x))

redis_del(d, key, fault) == With(exec(d, Fmt("DEL", <<key>>), fault, NoPick), IntegerOrThrow)

\* A variant that deletes the first key only; C12 must tell it from redis_delv.
del_first(d, keys, fault) ==
    IF keys = <<>> THEN NoTrip(RInt(0), d)
    ELSE With(execv(d, Cmd("DEL", <<Head(keys)>>), fault, NoPick),
              LAMBDA x : Out(IF x.reply.type = "integer" THEN RInt(x.reply.int) ELSE RInt(0), x))

\* return (r->type == REDIS_REPLY_INTEGER) ? r->integer : 0;
redis_delv(d, keys, fault) ==
    IF keys = <<>> THEN NoTrip(RInt(0), d)
    ELSE With(execv(d, Cmd("DEL", keys), fault, NoPick),
              LAMBDA x : Out(IF x.reply.type = "integer" THEN RInt(x.reply.int) ELSE RInt(0), x))

\* return r->type == REDIS_REPLY_STATUS && std::string(r->str, r->len) == "OK";
\* A variant that deletes the key it has read; C29 must tell it from redis_get.
get_and_del(d, key, fault) ==
    LET g == With(exec(d, Fmt("GET", <<key>>), fault, NoPick), OptionalOrNone)
        x == exec(g.db, Fmt("DEL", <<key>>), fault, NoPick)
    IN  [g EXCEPT !.sent = g.sent \o x.sent, !.db = x.db]

redis_set(d, key, value, fault) ==
    With(exec(d, Fmt("SET", <<key, value>>), fault, NoPick),
         LAMBDA x : Out(RBool(x.reply.type = "status" /\ x.reply.str = OK), x))

redis_get(d, key, fault) == With(exec(d, Fmt("GET", <<key>>), fault, NoPick), OptionalOrNone)

redis_getset(d, key, new_value, fault) ==
    With(exec(d, Fmt("GETSET", <<key, new_value>>), fault, NoPick), OptionalOrNone)

redis_append(d, key, value, fault) ==
    With(exec(d, Fmt("APPEND", <<key, value>>), fault, NoPick), IntegerOrThrow)

redis_hget(d, key, hash_key, fault) ==
    With(exec(d, Fmt("HGET", <<key, hash_key>>), fault, NoPick), OptionalOrThrow)

\* std::optional<std::string> values of a map: <<has_value, value>>.
Some(v) == <<TRUE, v>>

Nullopt == <<FALSE, <<>>>>

\* The loop over the elements of the HMGET reply: hash_map[fields[i]] is set from
\* element i; an element that is neither a string nor nil throws, the entries
\* assigned so far kept.
RECURSIVE HGetFill(_, _, _, _)
HGetFill(hash_map, fields, elems, i) ==
    IF i > Len(elems) \/ i > Len(fields) THEN [Res EXCEPT !.map = hash_map]
    ELSE IF elems[i].type = "string"
         THEN HGetFill(MapPut(hash_map, fields[i], Some(elems[i].str)), fields, elems, i + 1)
    ELSE IF elems[i].type = "nil"
         THEN HGetFill(MapPut(hash_map, fields[i], Nullopt), fields, elems, i + 1)
    ELSE [Res EXCEPT !.map = hash_map, !.thrown = TRUE]

\* hget(key, hash_map): fields lists the map's keys in its iteration order.  The
\* result's map is hash_map as the call leaves it: if (r->type !=
\* REDIS_REPLY_ARRAY) return;
redis_hgetv(d, key, hash_map, fields, fault) ==
    IF hash_map = {} THEN NoTrip(RMap(hash_map), d)
    ELSE With(execv(d, Cmd("HMGET", <<key>> \o fields), fault, NoPick),
              LAMBDA x : Out(IF x.reply.type # "array" THEN RMap(hash_map)
                             ELSE HGetFill(hash_map, fields, x.reply.elems, 1), x))

\* return r->type == REDIS_REPLY_INTEGER && r->integer >= 0;
HSetResult(x) == Out(RBool(x.reply.type = "integer" /\ x.reply.int >= 0), x)

redis_hset(d, key, field, value, fault) ==
    With(exec(d, Fmt("HSET", <<key, field, value>>), fault, NoPick), HSetResult)

\* The field, value, field, value, ... arguments of a map, in iteration order.
RECURSIVE FieldValueArgs(_, _)
FieldValueArgs(hash_map, fields) ==
    IF fields = <<>> THEN <<>>
    ELSE <<Head(fields), MapGet(hash_map, Head(fields))>> \o FieldValueArgs(hash_map, Tail(fields))

\* hset(key, hash_map): redisCommandArgv called directly, the reply's type looked
\* at without exec's check for an error reply.
redis_hsetv(d, key, hash_map, fields, fault) ==
    IF hash_map = {} THEN NoTrip(RBool(FALSE), d)
    ELSE With(RoundTrip(d, Cmd("HSET", <<key>> \o FieldValueArgs(hash_map, fields)), fault, NoPick),
              HSetResult)

\* result.emplace(key, value): the first value of a key is kept.
MapEmplace(h, f, v) == IF MapHas(h, f) THEN h ELSE h \cup {<<f, v>>}

\* for (i = 0; i + 1 < r->elements; i += 2) result.emplace(element[i]->str,
\* element[i + 1]->str): the strings are built from char pointers.
RECURSIVE HGetAllFill(_, _, _)
HGetAllFill(result, elems, i) ==
    IF i + 1 > Len(elems) THEN result
    ELSE HGetAllFill(MapEmplace(result, CStr(elems[i].str), CStr(elems[i + 1].str)), elems, i + 2)

\* The map is filled only if (r->type == REDIS_REPLY_ARRAY).
redis_hgetall(d, key, fault) ==
    With(exec(d, Fmt("HGETALL", <<key>>), fault, NoPick),
         LAMBDA x : Out(IF x.reply.type = "array" THEN RMap(HGetAllFill({}, x.reply.elems, 1))
                        ELSE RMap({}), x))

redis_hdel(d, key, hash_key, fault) ==
    With(exec(d, Fmt("HDEL", <<key, hash_key>>), fault, NoPick), IntegerOrThrow)

\* A variant that removes the first field only; C16 must tell it from
\* redis_hdelv.
hdel_first(d, key, hash_keys, fault) ==
    IF hash_keys = <<>> THEN NoTrip(RInt(0), d)
    ELSE With(execv(d, Cmd("HDEL", <<key, Head(hash_keys)>>), fault, NoPick), IntegerOrThrow)

redis_hdelv(d, key, hash_keys, fault) ==
    IF hash_keys = <<>> THEN NoTrip(RInt(0), d)
    ELSE With(execv(d, Cmd("HDEL", <<key>> \o hash_keys), fault, NoPick), IntegerOrThrow)

redis_llen(d, key, fault) == With(exec(d, Fmt("LLEN", <<key>>), fault, NoPick), IntegerOrThrow)

\* if (values.empty()) return llen(key);
redis_lpushv(d, key, values, fault) ==
    IF values = <<>> THEN redis_llen(d, key, fault)
    ELSE With(execv(d, Cmd("LPUSH", <<key>> \o values), fault, NoPick), IntegerOrThrow)

redis_lpush(d, key, value, fault) ==
    With(exec(d, Fmt("LPUSH", <<key, value>>), fault, NoPick), IntegerOrThrow)

redis_rpush(d, key, value, fault) ==
    With(exec(d, Fmt("RPUSH", <<key, value>>), fault, NoPick), IntegerOrThrow)

\* if (values.empty()) return llen(key);
redis_rpushv(d, key, values, fault) ==
    IF values = <<>> THEN redis_llen(d, key, fault)
    ELSE With(execv(d, Cmd("RPUSH", <<key>> \o values), fault, NoPick), IntegerOrThrow)

\* "LRANGE %s %lld %lld"
redis_lrange(d, key, start, stop, fault) ==
    With(exec(d, Fmt("LRANGE", <<key, IntToText(start), IntToText(stop)>>), fault, NoPick), ListOrThrow)

redis_lpop(d, key, fault) == With(exec(d, Fmt("LPOP", <<key>>), fault, NoPick), OptionalOrThrow)

redis_rpop(d, key, fault) == With(exec(d, Fmt("RPOP", <<key>>), fault, NoPick), OptionalOrThrow)

\* A variant that adds the members one command at a time; C8 must tell it from
\* redis_sadd.
RECURSIVE sadd_each(_, _, _, _)
sadd_each(d, key, members, fault) ==
    IF members = <<>> THEN NoTrip(RInt(0), d)
    ELSE LET one == With(exec(d, Fmt("SADD", <<key, Head(members)>>), fault, NoPick), IntegerOrThrow)
             rest == sadd_each(one.db, key, Tail(members), fault)
         IN  [res |-> IF one.res.thrown \/ rest.res.thrown THEN RThrow
                      ELSE RInt(one.res.int + rest.res.int),
              sent |-> one.sent \o rest.sent, reply |-> one.reply, db |-> rest.db]

\* A variant that reports every member it was given as added; C15 must tell it
\* from redis_sadd.
sadd_all(d, key, members, fault) ==
    IF members = <<>> THEN NoTrip(RInt(0), d)
    ELSE With(execv(d, Cmd("SADD", <<key>> \o members), fault, NoPick),
              LAMBDA x : Out(IF x.reply.type # "integer" THEN RThrow ELSE RInt(Len(members)), x))

redis_sadd(d, key, members, fault) ==
    IF members = <<>> THEN NoTrip(RInt(0), d)
    ELSE With(execv(d, Cmd("SADD", <<key>> \o members), fault, NoPick), IntegerOrThrow)

redis_srem(d, key, members, fault) ==
    IF members = <<>> THEN NoTrip(RInt(0), d)
    ELSE With(execv(d, Cmd("SREM", <<key>> \o members), fault, NoPick), IntegerOrThrow)

\* if (r->type != REDIS_REPLY_INTEGER) throw ...; return r->integer == 1;
redis_sismember(d, key, member, fault) ==
    With(exec(d, Fmt("SISMEMBER", <<key, member>>), fault, NoPick),
         LAMBDA x : Out(IF x.reply.type # "integer" THEN RThrow ELSE RBool(x.reply.int = 1), x))

redis_hkeys(d, key, fault) == With(exec(d, Fmt("HKEYS", <<key>>), fault, NoPick), ListOrEmpty)

redis_hvals(d, key, fault) == With(exec(d, Fmt("HVALS", <<key>>), fault, NoPick), ListOrEmpty)

redis_smembers(d, key, fault) == With(exec(d, Fmt("SMEMBERS", <<key>>), fault, NoPick), ListOrThrow)

redis_spop(d, key, fault, pick) == With(exec(d, Fmt("SPOP", <<key>>), fault, pick), OptionalOrThrow)

redis_sinter(d, keys, fault) ==
    IF keys = <<>> THEN NoTrip(RList(<<>>), d)
    ELSE With(execv(d, Cmd("SINTER", keys), fault, NoPick), ListOrThrow)

\* The score, member, score, member, ... arguments, scores through std::to_string.
RECURSIVE ScoreMemberArgs(_, _)
ScoreMemberArgs(members, order) ==
    IF order = <<>> THEN <<>>
    ELSE <<ScoreToText(MapGet(members, Head(order))), Head(order)>> \o ScoreMemberArgs(members, Tail(order))

\* zadd(key, members): order is the iteration order of members.
redis_zadd(d, key, members, order, fault) ==
    IF members = {} THEN NoTrip(RInt(0), d)
    ELSE With(execv(d, Cmd("ZADD", <<key>> \o ScoreMemberArgs(members, order)), fault, NoPick),
              IntegerOrThrow)

redis_zrem(d, key, members, fault) ==
    IF members = <<>> THEN NoTrip(RInt(0), d)
    ELSE With(execv(d, Cmd("ZREM", <<key>> \o members), fault, NoPick), IntegerOrThrow)

\* NIL: nullopt; STRING: std::stod of it; otherwise throw.
redis_zscore(d, key, member, fault) ==
    With(exec(d, Fmt("ZSCORE", <<key, member>>), fault, NoPick),
         LAMBDA x : Out(IF x.reply.type = "nil" THEN RNone
                        ELSE IF x.reply.type = "string" THEN RSomeInt(TextToScore(x.reply.str))
                        ELSE RThrow, x))

\* "ZINCRBY %s %s %s" with std::to_string(increment); STRING: std::stod of it;
\* otherwise throw.
redis_zincrby(d, key, increment, member, fault) ==
    With(exec(d, Fmt("ZINCRBY", <<key, ScoreToText(increment), member>>), fault, NoPick),
         LAMBDA x : Out(IF x.reply.type = "string" THEN RInt(TextToScore(x.reply.str)) ELSE RThrow, x))

\* "ZRANGE %s %lld %lld"
redis_zrange(d, key, start, stop, fault) ==
    With(exec(d, Fmt("ZRANGE", <<key, IntToText(start), IntToText(stop)>>), fault, NoPick), ListOrThrow)

\* "ZREVRANGE %s %lld %lld"
redis_zrevrange(d, key, start, stop, fault) ==
    With(exec(d, Fmt("ZREVRANGE", <<key, IntToText(start), IntToText(stop)>>), fault, NoPick),
         ListOrThrow)

redis_scard(d, key, fault) == With(exec(d, Fmt("SCARD", <<key>>), fault, NoPick), IntegerOrThrow)

\* "INCRBY %s %lld"
redis_incr(d, key, delta, fault) ==
    With(exec(d, Fmt("INCRBY", <<key, IntToText(delta)>>), fault, NoPick), IntegerOrThrow)

\* "DECRBY %s %lld"
redis_decr(d, key, delta, fault) ==
    With(exec(d, Fmt("DECRBY", <<key, IntToText(delta)>>), fault, NoPick), IntegerOrThrow)

\* "EXPIRE %s %d": return r->type == REDIS_REPLY_INTEGER && r->integer == 1;
redis_expire(d, key, seconds, fault) ==
    With(exec(d, Fmt("EXPIRE", <<key, IntToText(seconds)>>), fault, NoPick),
         LAMBDA x : Out(RBool(x.reply.type = "integer" /\ x.reply.int = 1), x))

redis_ttl(d, key, fault) == With(exec(d, Fmt("TTL", <<key>>), fault, NoPick), IntegerOrThrow)

(***************************************************************************)
(* redis_template's whole-key commands and the views of                    *)
(* redis_operations.hpp, bound to std::string keys and values with the     *)
(* stream based text serializer, as the tests bind them.  A view's         *)
(* operation yields its result (res), the result of the connection         *)
(* primitive it called (cres), the commands sent, the type of the reply    *)
(* and the keyspace afterwards.                                            *)
(***************************************************************************)
serialize_key(key) == string_serializer_serialize("string", key, 0)

deserialize_key(data) == string_serializer_deserialize("string", data)

serialize_value(value) == string_serializer_serialize("string", value, 0)

deserialize_value(data) == string_serializer_deserialize("string", data)

\* for (const auto &v: values) serialized_values.push_back(tpl.serialize_value(v));
SerializeAll(items) == [i \in 1..Len(items) |-> serialize_value(items[i])]

\* for (const auto &k: keys) serialized_keys.push_back(tpl.serialize_key(k));
SerializeKeys(keys) == [i \in 1..Len(keys) |-> serialize_key(keys[i])]

\* return tpl.get_connection().f(...): what the primitive returned or threw.
Same(c) == [res |-> c.res, cres |-> c.res, sent |-> c.sent, reply |-> c.reply, db |-> c.db]

\* A variant that catches what the primitive threw and returns std::nullopt;
\* C20 must tell it from Optional.
optional_caught(c) ==
    LET v == deserialize_value(c.res.str)
    IN  [Same(c) EXCEPT !.res = IF c.res.thrown \/ ~c.res.has THEN RNone
                                 ELSE IF v.thrown THEN Raised("serializer") ELSE RSome(v.str)]

\* auto val = ...; if (val) return tpl.deserialize_value(*val); return std::nullopt;
\* with V = int: string_serializer<int>::deserialize.
OptionalInt(c) ==
    LET v == string_serializer_deserialize("int", c.res.str)
    IN  [Same(c) EXCEPT !.res = IF c.res.thrown \/ ~c.res.has THEN c.res
                                 ELSE IF v.thrown THEN Raised("serializer") ELSE RSomeInt(v.int)]

\* auto val = ...; if (val) return tpl.deserialize_value(*val); return std::nullopt;
Optional(c) ==
    LET v == deserialize_value(c.res.str)
    IN  [Same(c) EXCEPT !.res = IF c.res.thrown \/ ~c.res.has THEN c.res
                                 ELSE IF v.thrown THEN Raised("serializer") ELSE RSome(v.str)]

\* for (const auto &m: raw) result.push_back(tpl.deserialize_value(m));
ValueList(c) ==
    LET raw == c.res.list
        thrown == \E i \in 1..Len(raw) : deserialize_value(raw[i]).thrown
    IN  [Same(c) EXCEPT !.res = IF c.res.thrown THEN c.res
                                 ELSE IF thrown THEN Raised("serializer")
                                 ELSE RList([i \in 1..Len(raw) |-> deserialize_value(raw[i]).str])]

\* serialized_map.emplace(tpl.serialize_key(pair.first), std::nullopt) for every
\* pair of hash_map.
RECURSIVE SerializedQuery(_, _)
SerializedQuery(serialized_map, names) ==
    IF names = <<>> THEN serialized_map
    ELSE SerializedQuery(MapEmplace(serialized_map, serialize_key(Head(names)), Nullopt), Tail(names))

\* hash_map.clear(); then for every pair of serialized_map, in its iteration
\* order: hash_map.emplace(tpl.deserialize_key(pair.first), the deserialized
\* value).  A throw leaves hash_map with the entries emplaced so far.
RECURSIVE HGetRefill(_, _, _)
HGetRefill(hash_map, serialized_map, fields) ==
    IF fields = <<>> THEN [Res EXCEPT !.map = hash_map]
    ELSE LET o == MapGet(serialized_map, Head(fields))
             v == IF o[1] THEN deserialize_value(o[2]) ELSE [thrown |-> FALSE, str |-> <<>>]
             k == deserialize_key(Head(fields))
         IN  IF v.thrown \/ k.thrown THEN [Res EXCEPT !.map = hash_map, !.thrown = TRUE]
             ELSE HGetRefill(MapEmplace(hash_map, k.str, IF o[1] THEN Some(v.str) ELSE Nullopt),
                             serialized_map, Tail(fields))

\* The caller's hash_map after hget(key, hash_map): untouched if the primitive
\* threw, otherwise cleared and filled again from serialized_map.
HGetView(c, hash_map, fields) ==
    [Same(c) EXCEPT !.res = IF c.res.thrown THEN [RThrow EXCEPT !.map = hash_map]
                             ELSE HGetRefill({}, c.res.map, fields)]

\* The loop of hget(key, hash_map) with V = int: tpl.deserialize_value is
\* string_serializer<int>::deserialize; a throw leaves hash_map as the loop has
\* made it so far.
RECURSIVE HGetRefillInt(_, _, _)
HGetRefillInt(hash_map, serialized_map, fields) ==
    IF fields = <<>> THEN [Res EXCEPT !.map = hash_map]
    ELSE LET o == MapGet(serialized_map, Head(fields))
             v == IF o[1] THEN string_serializer_deserialize("int", o[2])
                  ELSE [thrown |-> FALSE, str |-> <<>>, int |-> 0]
             k == deserialize_key(Head(fields))
         IN  IF v.thrown \/ k.thrown THEN [Raised("serializer") EXCEPT !.map = hash_map]
             ELSE HGetRefillInt(MapEmplace(hash_map, k.str, IF o[1] THEN Some(v.int) ELSE Nullopt),
                                serialized_map, Tail(fields))

\* hash_map.clear(); for (const auto &pair: serialized_map) ...
HGetViewInt(c, hash_map, fields) ==
    [Same(c) EXCEPT !.res = IF c.res.thrown THEN [RThrow EXCEPT !.map = hash_map]
                             ELSE HGetRefillInt({}, c.res.map, fields)]

RECURSIVE SerializedMap(_, _, _)
\* serialized_map.emplace(tpl.serialize_key(pair.first), tpl.serialize_value(pair.second))
SerializedMap(serialized_map, hash_map, names) ==
    IF names = <<>> THEN serialized_map
    ELSE SerializedMap(MapEmplace(serialized_map, serialize_key(Head(names)),
                                  serialize_value(MapGet(hash_map, Head(names)))),
                       hash_map, Tail(names))

\* result.emplace(tpl.deserialize_key(pair.first), tpl.deserialize_value(pair.second))
RECURSIVE HGetAllEmplace(_, _)
HGetAllEmplace(result, raw) ==
    IF raw = <<>> THEN [Res EXCEPT !.map = result]
    ELSE LET k == deserialize_key(Head(raw)[1])
             v == deserialize_value(Head(raw)[2])
         IN  IF k.thrown \/ v.thrown THEN Raised("serializer")
             ELSE HGetAllEmplace(MapEmplace(result, k.str, v.str), Tail(raw))

HGetAllView(c) ==
    [Same(c) EXCEPT !.res = IF c.res.thrown THEN RThrow
                             ELSE HGetAllEmplace({}, SetToSeq(c.res.map))]

\* serialized_members.emplace(tpl.serialize_value(pair.first), pair.second)
RECURSIVE SerializedMembers(_, _, _)
SerializedMembers(serialized, members, names) ==
    IF names = <<>> THEN serialized
    ELSE SerializedMembers(MapEmplace(serialized, serialize_value(Head(names)),
                                      MapGet(members, Head(names))),
                           members, Tail(names))

(***************************************************************************)
(* The operations as steps on the keyspace.  db is the store's keyspace;   *)
(* last records the latest call: its inputs, the keyspace before it, what  *)
(* the operation returned (res), what the connection primitive returned    *)
(* (cres), the commands sent and the type of the reply.  The views are     *)
(* those of a redis_template over a live connection and the text           *)
(* serializer.  The calls are synchronous: the caller makes one, has its   *)
(* result in hand (last), and goes on to its next statement (Return).      *)
(* A test that checks one call against the call before it keeps what that  *)
(* call was given and returned (last.prev, kept by Then), and the seconds  *)
(* that went by since (last.prev.ticks, counted by Tick).                  *)
(***************************************************************************)
\* No earlier call is remembered.
NoPrev ==
    [op |-> "none", key |-> <<>>, keys |-> <<>>, items |-> <<>>, map |-> {}, nums |-> <<>>,
     pre |-> [k \in Keys |-> NoEntry], res |-> Res, ticks |-> 0]

NoCall ==
    [op |-> "none", key |-> <<>>, keys |-> <<>>, items |-> <<>>, map |-> {}, nums |-> <<>>,
     fault |-> "none", pre |-> [k \in Keys |-> NoEntry], res |-> Res, cres |-> Res,
     sent |-> <<>>, reply |-> "none", prev |-> NoPrev]

\* The orders an unordered_map with the names S can iterate in.
Orders(S) == {q \in [1..Cardinality(S) -> S] : Range(q) = S}

Batches(S) == SeqsUpTo(S, MaxBatch)

\* std::unordered_map arguments with at most MaxBatch entries.
MapsOver(names, values) ==
    {h \in SUBSET (names \X values) :
        /\ Cardinality(h) <= MaxBatch
        /\ Cardinality(MapNames(h)) = Cardinality(h)}

ListsFit(d) == \A k \in DOMAIN d : Len(d[k].list) <= MaxListLen

ScoresFit(d) == \A k \in DOMAIN d : \A p \in d[k].zset : p[2] <= MaxScore * ScoreUnit

Called(op, key, keys, items, map, fault, o) ==
    [op |-> op, key |-> key, keys |-> keys, items |-> items, map |-> map, nums |-> <<>>,
     fault |-> fault, pre |-> db, res |-> o.res, cres |-> o.cres, sent |-> o.sent,
     reply |-> o.reply, prev |-> last.prev]

\* A call of the operation that yields outcome.
Call(op, key, keys, items, map, fault, outcome) ==
    /\ last.op = "none"
    /\ \E o \in {outcome} :
          /\ ListsFit(o.db)
          /\ db' = o.db
          /\ last' = Called(op, key, keys, items, map, fault, o)
    /\ UNCHANGED <<facade, access, ser>>

\* A call of an operation that takes numbers (a delta, seconds, indexes, an
\* increment): nums holds them.
CallNum(op, key, items, nums, fault, outcome) ==
    /\ last.op = "none"
    /\ \E o \in {outcome} :
          /\ ScoresFit(o.db)
          /\ db' = o.db
          /\ last' = [Called(op, key, <<>>, items, {}, fault, o) EXCEPT !.nums = nums]
    /\ UNCHANGED <<facade, access, ser>>

Init ==
    /\ facade = redis_template("conn", "ser1", "ser1")
    /\ access = NoAccess
    /\ ser = "idle"
    /\ db = [k \in Keys |-> NoEntry]
    /\ last = NoCall

\* redis_template::exists
Exists ==
    \E key \in KeyNames, fault \in Faults :
        Call("exists", key, <<>>, <<>>, {}, fault,
             With(redis_exists(db, serialize_key(key), fault), Same))

\* redis_template::del(key)
Del ==
    \E key \in KeyNames, fault \in Faults :
        Call("del", key, <<>>, <<>>, {}, fault,
             With(redis_del(db, serialize_key(key), fault), Same))

\* redis_template::del(keys)
DelKeys ==
    \E keys \in Batches(KeyNames), fault \in Faults :
        Call("delv", <<>>, keys, <<>>, {}, fault,
             With(redis_delv(db, SerializeKeys(keys), fault), Same))

\* default_value_operations::set
Set ==
    \E key \in DOMAIN db, value \in Vals, fault \in Faults :
        Call("set", key, <<>>, <<value>>, {}, fault,
             With(redis_set(db, serialize_key(key), serialize_value(value), fault), Same))

\* default_value_operations::get
Get ==
    \E key \in KeyNames, fault \in Faults :
        Call("get", key, <<>>, <<>>, {}, fault,
             With(redis_get(db, serialize_key(key), fault), Optional))

\* default_value_operations<std::string, int>::get: the view bound to int values.
GetInt ==
    \E key \in KeyNames, fault \in Faults :
        Call("get_int", key, <<>>, <<>>, {}, fault,
             With(redis_get(db, serialize_key(key), fault), OptionalInt))

\* default_value_operations::get_and_set
GetAndSet ==
    \E key \in DOMAIN db, value \in Vals, fault \in Faults :
        Call("get_and_set", key, <<>>, <<value>>, {}, fault,
             With(redis_getset(db, serialize_key(key), serialize_value(value), fault), Optional))

\* Values as byte sequences: those of Vals and one with a zero byte inside.
ByteVals == Vals \cup {<<"v", Nul, "w">>}

StringsFit(d) == \A k \in DOMAIN d : Len(d[k].str) <= MaxStrLen + 1

\* default_value_operations::append (Append is the operator of Sequences)
AppendValue ==
    \E key \in DOMAIN db, value \in ByteVals, fault \in Faults :
        /\ StringsFit(redis_append(db, serialize_key(key), serialize_value(value), fault).db)
        /\ Call("append", key, <<>>, <<value>>, {}, fault,
                With(redis_append(db, serialize_key(key), serialize_value(value), fault), Same))

\* default_hash_operations::hget(key, hash_key)
HGet ==
    \E key \in KeyNames, hash_key \in HFields, fault \in Faults :
        Call("hget", key, <<>>, <<hash_key>>, {}, fault,
             With(redis_hget(db, serialize_key(key), serialize_key(hash_key), fault), Optional))

\* default_hash_operations::hget(key, hash_map); fields is the iteration order of
\* serialized_map.
HGetMap ==
    \E key \in KeyNames, hash_map \in MapsOver(HFields, {Nullopt}), fault \in Faults :
        \E fields \in Orders(MapNames(hash_map)) :
            Call("hgetv", key, <<>>, fields, hash_map, fault,
                 With(redis_hgetv(db, serialize_key(key),
                                  SerializedQuery({}, SetToSeq(MapNames(hash_map))), fields, fault),
                      LAMBDA c : HGetView(c, hash_map, fields)))

\* default_hash_operations<std::string, int>::hget(key, hash_map): the view
\* bound to int values.
HGetMapInt ==
    \E key \in KeyNames, hash_map \in MapsOver(HFields, {Nullopt}), fault \in Faults :
        \E fields \in Orders(MapNames(hash_map)) :
            Call("hgetv_int", key, <<>>, fields, hash_map, fault,
                 With(redis_hgetv(db, serialize_key(key),
                                  SerializedQuery({}, SetToSeq(MapNames(hash_map))), fields, fault),
                      LAMBDA c : HGetViewInt(c, hash_map, fields)))

\* default_hash_operations::hset(key, field, value)
HSet ==
    \E key \in DOMAIN db, field \in HFields, value \in Vals, fault \in Faults :
        Call("hset", key, <<>>, <<field, value>>, {}, fault,
             With(redis_hset(db, serialize_key(key), serialize_key(field),
                             serialize_value(value), fault), Same))

\* default_hash_operations::hset(key, hash_map); fields is the iteration order of
\* serialized_map.
HSetMap ==
    \E key \in DOMAIN db, hash_map \in MapsOver(HFields, Vals), fault \in Faults :
        \E fields \in Orders(MapNames(hash_map)) :
            Call("hsetv", key, <<>>, fields, hash_map, fault,
                 With(redis_hsetv(db, serialize_key(key),
                                  SerializedMap({}, hash_map, SetToSeq(MapNames(hash_map))),
                                  fields, fault), Same))

\* default_hash_operations::hgetall
HGetAll ==
    \E key \in KeyNames, fault \in Faults :
        Call("hgetall", key, <<>>, <<>>, {}, fault,
             With(redis_hgetall(db, serialize_key(key), fault), HGetAllView))

\* default_hash_operations::hdel(key, hash_key)
HDel ==
    \E key \in KeyNames, hash_key \in HFields, fault \in Faults :
        Call("hdel", key, <<>>, <<hash_key>>, {}, fault,
             With(redis_hdel(db, serialize_key(key), serialize_key(hash_key), fault), Same))

\* default_hash_operations::hdel(key, hash_keys)
HDelKeys ==
    \E key \in KeyNames, hash_keys \in Batches(HFields), fault \in Faults :
        Call("hdelv", key, <<>>, hash_keys, {}, fault,
             With(redis_hdelv(db, serialize_key(key), SerializeKeys(hash_keys), fault), Same))

\* default_list_operations::lpush(key, value)
LPush ==
    \E key \in DOMAIN db, value \in Vals, fault \in Faults :
        Call("lpush", key, <<>>, <<value>>, {}, fault,
             With(redis_lpush(db, serialize_key(key), serialize_value(value), fault), Same))

\* default_list_operations::lpush(key, values)
LPushValues ==
    \E key \in DOMAIN db, values \in Batches(Vals), fault \in Faults :
        Call("lpushv", key, <<>>, values, {}, fault,
             With(redis_lpushv(db, serialize_key(key), SerializeAll(values), fault), Same))

\* default_list_operations::rpush(key, value): return rpush(key, std::vector<V>{value});
RPush ==
    \E key \in DOMAIN db, value \in Vals, fault \in Faults :
        Call("rpush", key, <<>>, <<value>>, {}, fault,
             With(redis_rpushv(db, serialize_key(key), SerializeAll(<<value>>), fault), Same))

\* default_list_operations::rpush(key, values)
RPushValues ==
    \E key \in DOMAIN db, values \in Batches(Vals), fault \in Faults :
        Call("rpushv", key, <<>>, values, {}, fault,
             With(redis_rpushv(db, serialize_key(key), SerializeAll(values), fault), Same))

\* default_list_operations::lpop
LPop ==
    \E key \in KeyNames, fault \in Faults :
        Call("lpop", key, <<>>, <<>>, {}, fault,
             With(redis_lpop(db, serialize_key(key), fault), Optional))

\* default_list_operations::rpop
RPop ==
    \E key \in KeyNames, fault \in Faults :
        Call("rpop", key, <<>>, <<>>, {}, fault,
             With(redis_rpop(db, serialize_key(key), fault), Optional))

\* default_set_operations::sadd
SAdd ==
    \E key \in DOMAIN db, members \in Batches(Vals), fault \in Faults :
        Call("sadd", key, <<>>, members, {}, fault,
             With(redis_sadd(db, serialize_key(key), SerializeAll(members), fault), Same))

\* default_set_operations::srem
SRem ==
    \E key \in KeyNames, members \in Batches(Vals), fault \in Faults :
        Call("srem", key, <<>>, members, {}, fault,
             With(redis_srem(db, serialize_key(key), SerializeAll(members), fault), Same))

\* default_set_operations::spop; pick is the member the store chooses.
SPop ==
    \E key \in KeyNames, fault \in Faults, pick \in Vals :
        Call("spop", key, <<>>, <<>>, {}, fault,
             With(redis_spop(db, serialize_key(key), fault, pick), Optional))

\* default_hash_operations::hkeys: deserialize_key of every field (for strings
\* the conversion deserialize_value is).
HKeys ==
    \E key \in KeyNames, fault \in Faults :
        Call("hkeys", key, <<>>, <<>>, {}, fault,
             With(redis_hkeys(db, serialize_key(key), fault), ValueList))

\* default_hash_operations::hvals
HVals ==
    \E key \in KeyNames, fault \in Faults :
        Call("hvals", key, <<>>, <<>>, {}, fault,
             With(redis_hvals(db, serialize_key(key), fault), ValueList))

\* default_set_operations::smembers
SMembers ==
    \E key \in KeyNames, fault \in Faults :
        Call("smembers", key, <<>>, <<>>, {}, fault,
             With(redis_smembers(db, serialize_key(key), fault), ValueList))

\* default_set_operations::sismember
SIsMember ==
    \E key \in KeyNames, member \in Vals, fault \in Faults :
        Call("sismember", key, <<>>, <<member>>, {}, fault,
             With(redis_sismember(db, serialize_key(key), serialize_value(member), fault), Same))

\* default_set_operations::sinter
SInter ==
    \E keys \in Batches(KeyNames), fault \in Faults :
        Call("sinter", <<>>, keys, <<>>, {}, fault,
             With(redis_sinter(db, SerializeKeys(keys), fault), ValueList))

\* default_zset_operations::zadd; order is the iteration order of
\* serialized_members.
ZAdd ==
    \E key \in DOMAIN db, members \in MapsOver(Vals, Scores), fault \in Faults :
        \E order \in Orders(MapNames(members)) :
            Call("zadd", key, <<>>, order, members, fault,
                 With(redis_zadd(db, serialize_key(key),
                                 SerializedMembers({}, members, SetToSeq(MapNames(members))),
                                 order, fault), Same))

\* default_zset_operations::zrem
ZRem ==
    \E key \in KeyNames, members \in Batches(Vals), fault \in Faults :
        Call("zrem", key, <<>>, members, {}, fault,
             With(redis_zrem(db, serialize_key(key), SerializeAll(members), fault), Same))

\* default_zset_operations::zscore
ZScore ==
    \E key \in KeyNames, member \in Vals, fault \in Faults :
        Call("zscore", key, <<>>, <<member>>, {}, fault,
             With(redis_zscore(db, serialize_key(key), serialize_value(member), fault), Same))

\* The deltas of incr and decr: the ends of long long and the values around 0.
\* long long seconds handed to a parameter int seconds: the value modulo
\* 2^IntBits.
NarrowToInt(n) == ((n + 2 ^ (IntBits - 1)) % (2 ^ IntBits)) - 2 ^ (IntBits - 1)

INT_MAX == 2 ^ (IntBits - 1) - 1

\* The seconds expire is called with: none, one, and the ends of int and long long.
Seconds == {0, 1, INT_MAX, INT_MAX + 1, LLONG_MAX}

\* redis_template::expire
Expire ==
    \E key \in KeyNames, seconds \in Seconds, fault \in Faults :
        CallNum("expire", key, <<>>, <<seconds>>, fault,
                With(redis_expire(db, serialize_key(key), NarrowToInt(seconds), fault), Same))

\* redis_connection::ttl
Ttl ==
    \E key \in KeyNames, fault \in Faults :
        CallNum("ttl", key, <<>>, <<>>, fault, With(redis_ttl(db, key, fault), Same))

\* A second goes by: the keys with an expiry have a second less to live, and a
\* key with none left is removed.
Tick ==
    /\ last.op = "none"
    /\ \E k \in DOMAIN db : db[k].ttl > 0
    /\ db' = [k \in DOMAIN db |->
                IF db[k].ttl > 1 THEN [db[k] EXCEPT !.ttl = @ - 1]
                ELSE IF db[k].ttl = 1 THEN NoEntry ELSE db[k]]
    /\ last' = [last EXCEPT !.prev.ticks = @ + 1]
    /\ UNCHANGED <<facade, access, ser>>

Deltas == {LLONG_MIN, 0 - 1, 0, 1, LLONG_MAX}

\* default_value_operations::incr
Incr ==
    \E key \in DOMAIN db, delta \in Deltas, fault \in Faults :
        CallNum("incr", key, <<>>, <<delta>>, fault,
                With(redis_incr(db, serialize_key(key), delta, fault), Same))

\* default_value_operations::decr
Decr ==
    \E key \in DOMAIN db, delta \in Deltas, fault \in Faults :
        CallNum("decr", key, <<>>, <<delta>>, fault,
                With(redis_decr(db, serialize_key(key), delta, fault), Same))

\* default_set_operations::scard
SCard ==
    \E key \in KeyNames, fault \in Faults :
        Call("scard", key, <<>>, <<>>, {}, fault,
             With(redis_scard(db, serialize_key(key), fault), Same))

\* The increments of zincrby: a tenth of the last decimal std::to_string
\* prints, and 1.0.
Increments == {1, ScoreUnit}

\* default_zset_operations::zincrby
ZIncrBy ==
    \E key \in DOMAIN db, increment \in Increments, member \in Vals, fault \in Faults :
        CallNum("zincrby", key, <<member>>, <<increment>>, fault,
                With(redis_zincrby(db, serialize_key(key), increment, serialize_value(member), fault),
                     Same))

\* The indexes zrange and zrevrange are asked for.
Indexes == {0 - 2, 0 - 1, 0, 1}

\* default_zset_operations::zrange
ZRange ==
    \E key \in KeyNames, start \in Indexes, stop \in Indexes, fault \in Faults :
        CallNum("zrange", key, <<>>, <<start, stop>>, fault,
                With(redis_zrange(db, serialize_key(key), start, stop, fault), ValueList))

\* default_zset_operations::zrevrange
ZRevRange ==
    \E key \in KeyNames, start \in Indexes, stop \in Indexes, fault \in Faults :
        CallNum("zrevrange", key, <<>>, <<start, stop>>, fault,
                With(redis_zrevrange(db, serialize_key(key), start, stop, fault), ValueList))

\* default_list_operations::lrange
LRange ==
    \E key \in KeyNames, start \in Indexes, stop \in Indexes, fault \in Faults :
        CallNum("lrange", key, <<>>, <<start, stop>>, fault,
                With(redis_lrange(db, serialize_key(key), start, stop, fault), ValueList))

\* default_list_operations::llen
LLen ==
    \E key \in KeyNames, fault \in Faults :
        Call("llen", key, <<>>, <<>>, {}, fault, With(redis_llen(db, serialize_key(key), fault), Same))

\* The caller is done with the result of the call.
Return ==
    /\ last.op # "none"
    /\ last' = NoCall
    /\ UNCHANGED <<facade, access, ser, db>>

\* The caller keeps what the call was given and what it returned, and goes on
\* to its next call (the calls whose reply the store gave itself).
Then ==
    /\ last.op # "none"
    /\ last.fault = "none"
    /\ last' = [NoCall EXCEPT !.prev = [op |-> last.op, key |-> last.key, keys |-> last.keys,
                                         items |-> last.items, map |-> last.map,
                                         nums |-> last.nums,
                                         pre |-> last.pre, res |-> last.res, ticks |-> 0]]
    /\ UNCHANGED <<facade, access, ser, db>>

Next ==
    \/ Exists
    \/ Del
    \/ DelKeys
    \/ Set
    \/ Get
    \/ HGet
    \/ HGetMap
    \/ HSet
    \/ HSetMap
    \/ HGetAll
    \/ HDel
    \/ HDelKeys
    \/ LPush
    \/ LPushValues
    \/ RPush
    \/ RPushValues
    \/ LPop
    \/ RPop
    \/ SAdd
    \/ SRem
    \/ SPop
    \/ SInter
    \/ ZAdd
    \/ ZRem
    \/ ZScore
    \/ Return

Spec == Init /\ [][Next]_vars

\* Every operation, and get through a view whose values are int.
NextErrors == Next \/ GetInt

SpecErrors == Init /\ [][NextErrors]_vars

(***************************************************************************)
(* Batch reads of a hash, through views bound to strings and to int.       *)
(***************************************************************************)
NextHashRead ==
    \/ HSet
    \/ LPush
    \/ Del
    \/ HGetMap
    \/ HGetMapInt
    \/ Return

SpecHashRead == Init /\ [][NextHashRead]_vars

(***************************************************************************)
(* The value view on one key, call after call.                             *)
(***************************************************************************)
NextValue ==
    \/ Set
    \/ Get
    \/ Del
    \/ Then
    \/ Return

SpecValue == Init /\ [][NextValue]_vars

(***************************************************************************)
(* Replacing and extending the string at one key.                          *)
(***************************************************************************)
NextString ==
    \/ Set
    \/ GetAndSet
    \/ AppendValue
    \/ Get
    \/ Del
    \/ Then
    \/ Return

SpecString == Init /\ [][NextString]_vars

(***************************************************************************)
(* The whole-key commands on two keys.                                     *)
(***************************************************************************)
InitKeys ==
    /\ facade = redis_template("conn", "ser1", "ser1")
    /\ access = NoAccess
    /\ ser = "idle"
    /\ db = [k \in KeyNames |-> NoEntry]
    /\ last = NoCall

NextKeys ==
    \/ Set
    \/ Exists
    \/ Del
    \/ DelKeys
    \/ Then
    \/ Return

SpecKeys == InitKeys /\ [][NextKeys]_vars

(***************************************************************************)
(* The list view on one key, call after call.                              *)
(***************************************************************************)
NextList ==
    \/ LPush
    \/ LPushValues
    \/ RPush
    \/ LPop
    \/ RPop
    \/ Then
    \/ Return

SpecList == Init /\ [][NextList]_vars

NextLRange ==
    \/ LPushValues
    \/ RPushValues
    \/ LRange
    \/ LLen
    \/ Return

SpecLRange == Init /\ [][NextLRange]_vars

(***************************************************************************)
(* The set view on one key, call after call.                               *)
(***************************************************************************)
NextSet ==
    \/ SAdd
    \/ SRem
    \/ SCard
    \/ Then
    \/ Return

SpecSet == Init /\ [][NextSet]_vars

NextSPop ==
    \/ SAdd
    \/ SPop
    \/ SCard
    \/ SIsMember
    \/ Then
    \/ Return

SpecSPop == Init /\ [][NextSPop]_vars

(***************************************************************************)
(* The sorted set view on one key: scores, call after call, and ranges.    *)
(***************************************************************************)
NextZSet ==
    \/ ZAdd
    \/ ZIncrBy
    \/ ZScore
    \/ Then
    \/ Return

SpecZSet == Init /\ [][NextZSet]_vars

NextZRange ==
    \/ ZAdd
    \/ ZIncrBy
    \/ ZRange
    \/ ZRevRange
    \/ Return

SpecZRange == Init /\ [][NextZRange]_vars

(***************************************************************************)
(* Keys with an expiry, and time going by.                                 *)
(***************************************************************************)
NextExpiry ==
    \/ Set
    \/ Expire
    \/ Ttl
    \/ Tick
    \/ Then
    \/ Return

SpecExpiry == Init /\ [][NextExpiry]_vars

(***************************************************************************)
(* The operations that read, next to a writer of every type and expire.    *)
(***************************************************************************)
NextReads ==
    \/ Set
    \/ Expire
    \/ HSetMap
    \/ LPushValues
    \/ SAdd
    \/ ZAdd
    \/ Exists
    \/ Ttl
    \/ Get
    \/ HGet
    \/ HGetMap
    \/ HGetAll
    \/ HKeys
    \/ HVals
    \/ LRange
    \/ LLen
    \/ SMembers
    \/ SCard
    \/ SIsMember
    \/ SInter
    \/ ZScore
    \/ ZRange
    \/ ZRevRange
    \/ Return

SpecReads == Init /\ [][NextReads]_vars

(***************************************************************************)
(* The single-item and the batch form of a primitive, called with the same *)
(* one item on the same keyspace.  Keys, fields and values are byte        *)
(* sequences, a zero byte among them.                                      *)
(***************************************************************************)
ByteKeys == {<<"k">>, <<"k", Nul, "j">>}

ByteFields == {<<"f">>, <<"f", Nul, "g">>}

ByteItems == {<<"v">>, <<"v", Nul, "w">>}

InitForms ==
    /\ facade = redis_template("conn", "ser1", "ser1")
    /\ access = NoAccess
    /\ ser = "idle"
    /\ db = [k \in ByteKeys |-> NoEntry]
    /\ last = NoCall

\* Both forms are called on db; the keyspace goes on as either of them left it.
BothForms(op, key, items, fault, single, batch) ==
    /\ last.op = "none"
    /\ \E one \in {single}, many \in {batch} :
          /\ last' = [op |-> op, key |-> key, items |-> items, fault |-> fault, pre |-> db,
                       single |-> [res |-> one.res, db |-> one.db, sent |-> one.sent],
                       batch |-> [res |-> many.res, db |-> many.db, sent |-> many.sent]]
          /\ \E o \in {one, many} : ListsFit(o.db) /\ db' = o.db
    /\ UNCHANGED <<facade, access, ser>>

\* redis_connection::del(key) and del(keys) with keys = {key}
DelForms ==
    \E key \in ByteKeys, fault \in Faults :
        BothForms("del", key, <<>>, fault, redis_del(db, key, fault), redis_delv(db, <<key>>, fault))

\* redis_connection::hset(key, field, value) and hset(key, {{field, value}})
HSetForms ==
    \E key \in ByteKeys, field \in ByteFields, value \in ByteItems, fault \in Faults :
        BothForms("hset", key, <<field, value>>, fault,
                  redis_hset(db, key, field, value, fault),
                  redis_hsetv(db, key, {<<field, value>>}, <<field>>, fault))

\* redis_connection::hdel(key, hash_key) and hdel(key, {hash_key})
HDelForms ==
    \E key \in ByteKeys, hash_key \in ByteFields, fault \in Faults :
        BothForms("hdel", key, <<hash_key>>, fault,
                  redis_hdel(db, key, hash_key, fault), redis_hdelv(db, key, <<hash_key>>, fault))

\* redis_connection::lpush(key, value) and lpush(key, {value})
LPushForms ==
    \E key \in ByteKeys, value \in ByteItems, fault \in Faults :
        BothForms("lpush", key, <<value>>, fault,
                  redis_lpush(db, key, value, fault), redis_lpushv(db, key, <<value>>, fault))

\* redis_connection::rpush(key, value) and rpush(key, {value})
RPushForms ==
    \E key \in ByteKeys, value \in ByteItems, fault \in Faults :
        BothForms("rpush", key, <<value>>, fault,
                  redis_rpush(db, key, value, fault), redis_rpushv(db, key, <<value>>, fault))

NextForms ==
    \/ DelForms
    \/ HSetForms
    \/ HDelForms
    \/ LPushForms
    \/ RPushForms
    \/ Return

SpecForms == InitForms /\ [][NextForms]_vars

(***************************************************************************)
(* A key used as a counter.                                                *)
(***************************************************************************)
NextCounter ==
    \/ Set
    \/ Incr
    \/ Decr
    \/ Then
    \/ Return

SpecCounter == Init /\ [][NextCounter]_vars

(***************************************************************************)
(* Properties of the operations.                                           *)
(***************************************************************************)
IntegerCommands ==
    {"EXISTS", "DEL", "HSET", "HDEL", "LPUSH", "RPUSH", "LLEN", "SADD", "SREM", "ZADD", "ZREM"}

OptionalCommands == {"GET", "HGET", "LPOP", "RPOP", "SPOP", "ZSCORE"}

\* The reply types a command's answer has.
ExpectedReply(name) ==
    IF name \in IntegerCommands THEN {"integer"}
    ELSE IF name = "SET" THEN {"status"}
    ELSE IF name \in OptionalCommands THEN {"string", "nil"}
    ELSE {"array"}

MismatchedReply ==
    /\ last.sent # <<>>
    /\ last.reply \notin ExpectedReply(last.sent[1].name) \cup {"error"}

\* C6: whenever the store's reply to a primitive's command has another type than
\* the command expects, the primitive raises an error; it returns no default (0,
\* false, an empty optional, an empty or untouched collection) in its place.
C6_MismatchedReplyRaises == MismatchedReply => last.cres.thrown

EmptyInput ==
    \/ last.op \in {"delv", "sinter"} /\ last.keys = <<>>
    \/ last.op \in {"hdelv", "lpushv", "rpushv", "sadd", "srem", "zrem"} /\ last.items = <<>>
    \/ last.op \in {"hsetv", "hgetv", "zadd"} /\ last.map = {}

\* C7: an operation called with an empty input collection returns its zero
\* result (0, false, nothing) and sends no command to the store.
C7_EmptyInputSendsNothing ==
    EmptyInput => /\ last.sent = <<>>
                  /\ last.res = Res

VectorBatchCommand ==
    [hdelv |-> "HDEL", lpushv |-> "LPUSH", rpushv |-> "RPUSH", sadd |-> "SADD",
     srem |-> "SREM", zrem |-> "ZREM"]

\* The <<first, second>> pairs that follow the key in a command's arguments.
ArgPairs(args) == {<<args[2 * i], args[2 * i + 1]>> : i \in 1..((Len(args) - 1) \div 2)}

\* The one command that carries every item of the latest call's input.
CarriesBatch(cmd) ==
    CASE last.op = "delv" -> cmd = Cmd("DEL", SerializeKeys(last.keys))
      [] last.op = "hdelv" ->
            cmd = Cmd("HDEL", <<serialize_key(last.key)>> \o SerializeKeys(last.items))
      [] last.op \in {"lpushv", "rpushv", "sadd", "srem", "zrem"} ->
            cmd = Cmd(VectorBatchCommand[last.op],
                      <<serialize_key(last.key)>> \o SerializeAll(last.items))
      [] last.op = "hgetv" ->
            /\ cmd.name = "HMGET"
            /\ Len(cmd.args) = 1 + Cardinality(last.map)
            /\ cmd.args[1] = serialize_key(last.key)
            /\ Range(Tail(cmd.args)) = {serialize_key(f) : f \in MapNames(last.map)}
      [] last.op = "hsetv" ->
            /\ cmd.name = "HSET"
            /\ Len(cmd.args) = 1 + 2 * Cardinality(last.map)
            /\ cmd.args[1] = serialize_key(last.key)
            /\ ArgPairs(cmd.args) = {<<serialize_key(p[1]), serialize_value(p[2])>> : p \in last.map}
      [] last.op = "zadd" ->
            /\ cmd.name = "ZADD"
            /\ Len(cmd.args) = 1 + 2 * Cardinality(last.map)
            /\ cmd.args[1] = serialize_key(last.key)
            /\ ArgPairs(cmd.args) = {<<ScoreToText(p[2]), serialize_value(p[1])>> : p \in last.map}

BatchOps == {"delv", "hdelv", "lpushv", "rpushv", "sadd", "srem", "zrem", "hgetv", "hsetv", "zadd"}

\* The number of items of the latest call's input.
BatchSize ==
    IF last.op \in {"delv", "sinter"} THEN Len(last.keys)
    ELSE IF last.op \in {"hgetv", "hsetv", "zadd"} THEN Cardinality(last.map)
    ELSE Len(last.items)

\* C8: a batch operation with a non-empty input of N items sends exactly one
\* command, and that command carries all N items; it is not decomposed into
\* single-item commands.
C8_BatchIsOneCommand ==
    (last.op \in BatchOps /\ BatchSize >= 1)
        => /\ Len(last.sent) = 1
           /\ CarriesBatch(last.sent[1])

\* A batch of two fields was written to a hash with one command.
C8_TwoItemBatchSent ==
    /\ last.op = "hsetv"
    /\ BatchSize = 2
    /\ last.fault = "none"
    /\ last.res.bool
    /\ Len(last.sent) = 1
    /\ Cardinality(EntryOf(db, last.key).hash) = 2

\* C9: after the batch hget returns, the map holds exactly one entry per
\* requested field (same fields, same number); a field of the hash maps to its
\* stored value, a field that is not in the hash to an empty optional.
C9_BatchGetKeepsRequestedFields ==
    (last.op = "hgetv" /\ last.fault = "none" /\ ~last.res.thrown)
        => LET h == EntryOf(last.pre, last.key).hash
           IN  /\ MapNames(last.res.map) = MapNames(last.map)
               /\ Cardinality(last.res.map) = Cardinality(last.map)
               /\ \A f \in MapNames(last.map) \cap MapNames(last.res.map) :
                      MapGet(last.res.map, f) =
                          IF MapHas(h, f) THEN Some(MapGet(h, f)) ELSE Nullopt

\* What the latest call asked for is not in the keyspace it was made on.
AskedForAbsent ==
    LET e == EntryOf(last.pre, last.key)
    IN  \/ last.op \in {"get", "lpop", "rpop", "spop"} /\ e.type = "none"
        \/ last.op = "hget" /\ (e.type = "none" \/ (e.type = "hash" /\ ~MapHas(e.hash, last.items[1])))
        \/ last.op = "zscore" /\ (e.type = "none" \/ (e.type = "zset" /\ ~MapHas(e.zset, last.items[1])))

\* C10: get of a never-set key, hget of a missing key or field, lpop/rpop of a
\* missing list, spop of a missing set and zscore of a missing member each return
\* an empty optional: no error is raised and no default value is returned.
C10_AbsenceIsEmptyOptional ==
    (last.fault = "none" /\ AskedForAbsent)
        => /\ ~last.res.thrown
           /\ ~last.res.has
           /\ last.res = RNone

\* hget asked an existing hash for a field it does not have and got nothing.
C10_MissingFieldAsked ==
    /\ last.op = "hget"
    /\ last.fault = "none"
    /\ EntryOf(last.pre, last.key).type = "hash"
    /\ ~MapHas(EntryOf(last.pre, last.key).hash, last.items[1])
    /\ last.reply = "nil"
    /\ last.res = RNone

\* The latest call follows, with nothing in between, a call of op on the same
\* key that the store answered itself.
Follows(op) ==
    /\ last.prev.op = op
    /\ last.prev.key = last.key
    /\ last.fault = "none"

\* C11: set(k, v) returns true, and a get(k) that follows it at once returns a
\* non-empty result equal to v.
C11_GetReturnsWhatWasSet ==
    /\ (last.op = "set" /\ last.fault = "none") => (~last.res.thrown /\ last.res.bool)
    /\ (last.op = "get" /\ Follows("set"))
          => /\ ~last.res.thrown
             /\ last.res.has
             /\ last.res.str = last.prev.items[1]

\* The keys of a list that hold something in the keyspace d.
Existing(d, keys) == {k \in Range(keys) : EntryOf(d, serialize_key(k)).type # "none"}

\* C12: del of N keys of which M (distinct keys) exist returns M, and exists is false for every
\* listed key afterwards; del of one existing key returns 1, and a del of the
\* same key again returns 0.
C12_DelCountsExistingKeys ==
    /\ (last.op = "delv" /\ last.fault = "none")
          => /\ ~last.res.thrown
             /\ last.res.int = Cardinality(Existing(last.pre, last.keys))
             /\ Existing(db, last.keys) = {}
    /\ (last.op = "exists" /\ last.fault = "none" /\ last.prev.op = "delv"
            /\ last.key \in Range(last.prev.keys))
          => (~last.res.thrown /\ ~last.res.bool)
    /\ (last.op = "del" /\ last.fault = "none")
          => /\ ~last.res.thrown
             /\ last.res.int = Cardinality(Existing(last.pre, <<last.key>>))
             /\ Existing(db, <<last.key>>) = {}
    /\ (last.op = "del" /\ Follows("del")) => last.res.int = 0

\* Two keys that both existed were deleted with one del, which returned 2.
C12_TwoKeysDeleted ==
    /\ last.op = "delv"
    /\ last.fault = "none"
    /\ Cardinality(Existing(last.pre, last.keys)) = 2
    /\ last.res.int = 2
    /\ \A k \in DOMAIN db : db[k].type = "none"

\* The key of the call held the decimal text of an integer in the keyspace d.
HeldInteger(d) ==
    LET e == EntryOf(d, serialize_key(last.key))
    IN  e.type = "string" /\ ~ExtractInt(e.str).fail /\ IntToText(ExtractInt(e.str).int) = e.str

IntegerHeld(d) == ExtractInt(EntryOf(d, serialize_key(last.key)).str).int

Representable(n) == n >= LLONG_MIN /\ n <= LLONG_MAX

\* C13: on a key holding the integer n, incr(k, d) returns n + d whenever n + d
\* is representable, and a decr(k, d) that follows it returns n and leaves n
\* stored again.
C13_IncrThenDecrRestores ==
    /\ (last.op = "incr" /\ last.fault = "none" /\ HeldInteger(last.pre)
            /\ Representable(IntegerHeld(last.pre) + last.nums[1]))
          => (~last.res.thrown /\ last.res.int = IntegerHeld(last.pre) + last.nums[1])
    /\ (last.op = "decr" /\ Follows("incr") /\ last.nums = last.prev.nums
            /\ HeldInteger(last.prev.pre) /\ ~last.prev.res.thrown)
          => /\ ~last.res.thrown
             /\ last.res.int = IntegerHeld(last.prev.pre)
             /\ db = last.prev.pre

\* C14: lpush(k, v) followed at once by lpop(k) returns v, rpush(k, v) followed
\* at once by rpop(k) returns v, and the list is then as it was before the push;
\* lpop and rpop of an empty list return an empty result.
C14_PushThenPopReturnsValue ==
    /\ (\/ last.op = "lpop" /\ Follows("lpush")
        \/ last.op = "rpop" /\ Follows("rpush"))
          => (~last.prev.res.thrown
                => /\ ~last.res.thrown
                   /\ last.res.has
                   /\ last.res.str = last.prev.items[1]
                   /\ db = last.prev.pre)
    /\ (last.op \in {"lpop", "rpop"} /\ last.fault = "none"
            /\ EntryOf(last.pre, serialize_key(last.key)).type = "none")
          => last.res = RNone

\* The set the key of the call held in the keyspace d.
SetHeld(d, key) == EntryOf(d, serialize_key(key)).set

\* C15: sadd returns the number of distinct members that were not in the set
\* before, srem the number of distinct members that were in it, and scard
\* changes by exactly the returned count.
C15_SetCountsDistinctMembers ==
    /\ (last.op = "sadd" /\ last.fault = "none")
          => /\ ~last.res.thrown
             /\ last.res.int = Cardinality(Range(last.items) \ SetHeld(last.pre, last.key))
             /\ Cardinality(SetHeld(db, last.key))
                    = Cardinality(SetHeld(last.pre, last.key)) + last.res.int
    /\ (last.op = "srem" /\ last.fault = "none")
          => /\ ~last.res.thrown
             /\ last.res.int = Cardinality(Range(last.items) \cap SetHeld(last.pre, last.key))
             /\ Cardinality(SetHeld(db, last.key))
                    = Cardinality(SetHeld(last.pre, last.key)) - last.res.int
    /\ (last.op = "scard" /\ Follows("sadd"))
          => last.res.int = Cardinality(SetHeld(last.prev.pre, last.key)) + last.prev.res.int
    /\ (last.op = "scard" /\ Follows("srem"))
          => last.res.int = Cardinality(SetHeld(last.prev.pre, last.key)) - last.prev.res.int

\* sadd was given the same member twice and a member the set already had, and
\* counted one new member; scard then answered one more than before.
C15_DuplicateCountedOnce ==
    /\ last.op = "scard"
    /\ Follows("sadd")
    /\ Len(last.prev.items) = 2
    /\ last.prev.items[1] = last.prev.items[2]
    /\ Cardinality(SetHeld(last.prev.pre, last.key)) = 1
    /\ last.prev.res.int = 1
    /\ last.res.int = 2

\* The hash the key of the call held in the keyspace d.
HashHeld(d, key) == EntryOf(d, serialize_key(key)).hash

\* The fields named by the latest hdel, as the store knows them.
ListedFields == {serialize_key(f) : f \in Range(last.items)}

\* C16: hdel returns the number of listed fields that were in the hash;
\* afterwards none of the listed fields is in it and every other field has the
\* value it had.
C16_HDelCountsRemovedFields ==
    (last.op \in {"hdel", "hdelv"} /\ last.fault = "none"
        /\ EntryOf(last.pre, serialize_key(last.key)).type \in {"none", "hash"})
      => /\ ~last.res.thrown
         /\ last.res.int = Cardinality(ListedFields \cap MapNames(HashHeld(last.pre, last.key)))
         /\ ListedFields \cap MapNames(HashHeld(db, last.key)) = {}
         /\ HashHeld(db, last.key) = {p \in HashHeld(last.pre, last.key) : p[1] \notin ListedFields}

\* hdel was given a field of the hash and left the hash's other field alone.
C16_OneOfTwoFieldsRemoved ==
    /\ last.op = "hdelv"
    /\ last.fault = "none"
    /\ Cardinality(HashHeld(last.pre, last.key)) = 2
    /\ Len(last.items) = 1
    /\ last.res.int = 1
    /\ Cardinality(HashHeld(db, last.key)) = 1

\* The sorted set the key of the call held in the keyspace d.
ZSetHeld(d, key) == EntryOf(d, serialize_key(key)).zset

\* C17: zincrby(k, inc, m) on a member whose score is s returns s + inc, and a
\* zscore(k, m) that follows it at once returns that same new score.
C17_ZIncrByAddsIncrement ==
    /\ (last.op = "zincrby" /\ last.fault = "none"
            /\ MapHas(ZSetHeld(last.pre, last.key), serialize_value(last.items[1])))
          => /\ ~last.res.thrown
             /\ last.res.int
                    = MapGet(ZSetHeld(last.pre, last.key), serialize_value(last.items[1])) + last.nums[1]
    /\ (last.op = "zscore" /\ Follows("zincrby") /\ last.items = last.prev.items
            /\ ~last.prev.res.thrown)
          => /\ ~last.res.thrown
             /\ last.res.has
             /\ last.res.int = last.prev.res.int

\* The positions start..stop of q, counted from 0, stop = -1 the last one.
Positions(q, start, stop) ==
    {i \in 0..(Len(q) - 1) :
        /\ i >= (IF start < 0 THEN Len(q) + start ELSE start)
        /\ i <= (IF stop < 0 THEN Len(q) + stop ELSE stop)}

\* q lists the members of zset by ascending score, once each.
Ascending(q, zset) ==
    /\ Len(q) = Cardinality(zset)
    /\ Range(q) = MapNames(zset)
    /\ \A i \in 1..Len(q), j \in 1..Len(q) : i < j => MapGet(zset, q[i]) <= MapGet(zset, q[j])

\* r is what q holds at the positions start..stop, in q's order.
IsRange(r, q, start, stop) ==
    LET at == Positions(q, start, stop)
    IN  /\ Len(r) = Cardinality(at)
        /\ \A i \in at : r[1 + i - (CHOOSE m \in at : \A n \in at : m <= n)] = q[i + 1]

\* C18: zrange(k, start, stop) returns the members at the inclusive positions
\* start..stop of the set in ascending order of score, stop = -1 being the last
\* one, and zrevrange the same positions of the descending order; zrange(k, 0,
\* -1) lists every member and zrevrange(k, 0, -1) is its reverse.
C18_RangesFollowScoreOrder ==
    (last.op \in {"zrange", "zrevrange"} /\ last.fault = "none")
      => LET zset == ZSetHeld(last.pre, last.key)
         IN  /\ ~last.res.thrown
             /\ \E asc \in Orders(MapNames(zset)) :
                    /\ Ascending(asc, zset)
                    /\ IsRange(last.res.list, IF last.op = "zrange" THEN asc ELSE Reverse(asc),
                               last.nums[1], last.nums[2])

\* C19: ttl(k) returns -2 for a key that does not exist and -1 for a key
\* without expiry; after expire(k, s) succeeded, s > 0, a ttl(k) read before s
\* seconds have gone by is greater than 0 and at most s; and of two ttl reads in
\* a row of a key that has not expired the later one is not the greater.
C19_TtlCountsDown ==
    /\ (last.op = "ttl" /\ last.fault = "none")
          => LET e == EntryOf(last.pre, serialize_key(last.key))
             IN  /\ ~last.res.thrown
                 /\ e.type = "none" => last.res.int = 0 - 2
                 /\ (e.type # "none" /\ e.ttl = NoExpiry) => last.res.int = 0 - 1
    /\ (last.op = "ttl" /\ Follows("expire") /\ last.prev.res.bool
            /\ last.prev.nums[1] > 0 /\ last.prev.ticks < last.prev.nums[1])
          => (last.res.int > 0 /\ last.res.int <= last.prev.nums[1])
    /\ (last.op = "ttl" /\ Follows("ttl") /\ last.prev.res.int >= 0 /\ last.res.int >= 0)
          => last.res.int <= last.prev.res.int

(***************************************************************************)
(* Errors raised below a view.                                             *)
(***************************************************************************)

\* string_serializer<int>::deserialize raises on what the primitive returned.
IntUnreadable == ~last.cres.thrown /\ last.cres.has /\ DeserializeThrows(Extract("int", last.cres.str))

\* C20: when the connection primitive or the serializer raises during a view
\* operation, the caller receives that same error: the view neither turns it
\* into a normal result nor into another error, and no command follows the
\* one that failed.
C20_ErrorsReachTheCaller ==
    /\ last.cres.thrown
          => /\ last.res.thrown
             /\ last.res.what = last.cres.what
             /\ Len(last.sent) <= 1
    /\ (last.op = "get_int" /\ IntUnreadable)
          => /\ last.res.thrown
             /\ last.res.what = "serializer"
             /\ Len(last.sent) = 1

C20_PrimitiveRaised == last.op = "get" /\ last.cres.thrown /\ last.res.thrown /\ Len(last.sent) = 1

C20_SerializerRaised == last.op = "get_int" /\ IntUnreadable /\ last.res.thrown

(***************************************************************************)
(* get_and_set and append.                                                 *)
(***************************************************************************)

\* The string the key of the call held in the keyspace d (none: the empty one).
StringHeld(d) == EntryOf(d, serialize_key(last.key)).str

KeyAbsent(d) == EntryOf(d, serialize_key(last.key)).type = "none"

\* C21: get_and_set(k, v) returns the value that was stored at k just before
\* the call (an empty result when k was absent) and leaves v stored, so that a
\* get(k) that follows at once returns v.
C21_GetAndSetReturnsOldValue ==
    /\ (last.op = "get_and_set" /\ last.fault = "none")
          => /\ ~last.res.thrown
             /\ last.res.has = ~KeyAbsent(last.pre)
             /\ last.res.has => last.res.str = StringHeld(last.pre)
             /\ StringHeld(db) = serialize_value(last.items[1])
    /\ (last.op = "get" /\ Follows("get_and_set"))
          => /\ ~last.res.thrown
             /\ last.res.has
             /\ last.res.str = last.prev.items[1]

\* C22: append(k, v) returns the length of the string stored after the call,
\* which is the length of the string stored before (0 for an absent key) plus
\* the length of the serialized v, and the stored string is the earlier one
\* followed by the serialized v.
C22_AppendReturnsNewLength ==
    (last.op = "append" /\ last.fault = "none")
        => /\ ~last.res.thrown
           /\ last.res.int = Len(StringHeld(db))
           /\ last.res.int = Len(StringHeld(last.pre)) + Len(serialize_value(last.items[1]))
           /\ StringHeld(db) = StringHeld(last.pre) \o serialize_value(last.items[1])

(***************************************************************************)
(* Lists: batch pushes, ranges and the length.                             *)
(***************************************************************************)

\* The list the key of the call held in the keyspace d, head first.
ListHeld(d) == EntryOf(d, serialize_key(last.key)).list

\* C23: on a list L, lpush(k, [v1..vn]) returns |L| + n and leaves vn, ..., v1
\* followed by L; rpush(k, [v1..vn]) returns |L| + n and leaves L followed by
\* v1, ..., vn; lrange(k, start, stop) returns the elements at the inclusive
\* positions start..stop from head to tail, lrange(k, 0, -1) the whole list,
\* whose length is llen(k).
C23_PushesAndRangesFollowListOrder ==
    /\ (last.op = "lpushv" /\ last.fault = "none")
          => /\ ~last.res.thrown
             /\ last.res.int = Len(ListHeld(last.pre)) + Len(last.items)
             /\ ListHeld(db) = Reverse(SerializeAll(last.items)) \o ListHeld(last.pre)
    /\ (last.op = "rpushv" /\ last.fault = "none")
          => /\ ~last.res.thrown
             /\ last.res.int = Len(ListHeld(last.pre)) + Len(last.items)
             /\ ListHeld(db) = ListHeld(last.pre) \o SerializeAll(last.items)
    /\ (last.op = "lrange" /\ last.fault = "none")
          => /\ ~last.res.thrown
             /\ IsRange(last.res.list, ListHeld(last.pre), last.nums[1], last.nums[2])
             /\ last.nums = <<0, 0 - 1>> => last.res.list = ListHeld(last.pre)
    /\ (last.op = "llen" /\ last.fault = "none")
          => (~last.res.thrown /\ last.res.int = Len(ListHeld(last.pre)))

(***************************************************************************)
(* Scores given to zadd.                                                   *)
(***************************************************************************)

\* C24: zadd returns the number of members that were not in the set before
\* (a member that was only has its score replaced), and a zscore(k, m) that
\* follows at once returns exactly the score passed for m, whatever the score
\* and however many decimal digits it has.
C24_ZAddStoresExactScores ==
    /\ (last.op = "zadd" /\ last.fault = "none")
          => /\ ~last.res.thrown
             /\ last.res.int
                    = Cardinality({serialize_value(m) : m \in MapNames(last.map)}
                                      \ MapNames(ZSetHeld(last.pre, last.key)))
    /\ (last.op = "zscore" /\ Follows("zadd") /\ MapHas(last.prev.map, last.items[1]))
          => /\ ~last.res.thrown
             /\ last.res.has
             /\ last.res.int = MapGet(last.prev.map, last.items[1])

(***************************************************************************)
(* Taking members out of a set.                                            *)
(***************************************************************************)

\* C25: spop(k) of a non-empty set returns a member the set had, removes that
\* member and no other (scard is one less, sismember of the returned member
\* is false), so that after as many calls as there were members the set is
\* empty; spop of an empty set returns an empty result.
C25_SPopRemovesTheReturnedMember ==
    /\ (last.op = "spop" /\ last.fault = "none" /\ SetHeld(last.pre, last.key) # {})
          => /\ ~last.res.thrown
             /\ last.res.has
             /\ serialize_value(last.res.str) \in SetHeld(last.pre, last.key)
             /\ SetHeld(db, last.key) = SetHeld(last.pre, last.key) \ {serialize_value(last.res.str)}
             /\ Cardinality(SetHeld(db, last.key)) = Cardinality(SetHeld(last.pre, last.key)) - 1
    /\ (last.op = "spop" /\ last.fault = "none"
            /\ EntryOf(last.pre, serialize_key(last.key)).type = "none")
          => (last.res = RNone /\ db = last.pre)
    /\ (last.op = "scard" /\ Follows("spop") /\ last.prev.res.has)
          => last.res.int = Cardinality(SetHeld(last.prev.pre, last.key)) - 1
    /\ (last.op = "sismember" /\ Follows("spop") /\ last.prev.res.has
            /\ last.items[1] = last.prev.res.str)
          => (~last.res.thrown /\ ~last.res.bool)

(***************************************************************************)
(* Error replies of the store.                                             *)
(***************************************************************************)

\* The store answered the latest call's command with an error reply.
ErrorReply == last.sent # <<>> /\ last.reply = "error"

\* C26: every connection primitive, single-item or batch, raises an error
\* when the store answers its command with an error reply; none returns a
\* normal value (false, 0) in its place.
C26_ErrorReplyRaises == ErrorReply => last.cres.thrown

(***************************************************************************)
(* The caller's map when the batch hget raises.                            *)
(***************************************************************************)

\* C27: if the batch hget(key, map) raises an error, from the connection or
\* from deserializing a field or a value that was returned, the caller's map
\* is as it was passed in: the requested fields, none removed, none replaced.
C27_FailedBatchGetLeavesMap ==
    (last.op \in {"hgetv", "hgetv_int"} /\ last.res.thrown) => last.res.map = last.map

(***************************************************************************)
(* The facade a view delegates through.                                    *)
(***************************************************************************)

\* C28: at every moment the facade a view delegates through (the reference
\* it was built with) is the live facade that owns the view, also after a
\* facade was move-constructed from another: no view is owned by one facade
\* while it delegates through another one or through a destroyed one.
C28_ViewDelegatesThroughOwner ==
    \A o \in Objects : \A v \in ViewNames :
        facade.objects[o].views[v].built = 1
            => /\ facade.objects[o].views[v].tpl = o
               /\ facade.life[o] = "live"
               /\ access.outcome \in {"none", "delegated"}

(***************************************************************************)
(* Operations that leave the store as it is.                               *)
(***************************************************************************)
ReadOps ==
    {"exists", "ttl", "get", "hget", "hgetv", "hgetall", "hkeys", "hvals", "lrange", "llen",
     "smembers", "scard", "sismember", "sinter", "zscore", "zrange", "zrevrange"}

\* The commands of the store that change nothing.
ReadCommands ==
    {"EXISTS", "TTL", "GET", "HGET", "HMGET", "HGETALL", "HKEYS", "HVALS", "LRANGE", "LLEN",
     "SMEMBERS", "SCARD", "SISMEMBER", "SINTER", "ZSCORE", "ZRANGE", "ZREVRANGE"}

C30_SingleAndBatchFormsAgree ==
    (last.op \in {"del", "hset", "hdel", "lpush", "rpush"} /\ last.fault = "none")
        => /\ last.single.db = last.batch.db
           /\ last.single.res = last.batch.res

====
